---------------------------- MODULE Spec2Model ----------------------------
(***************************************************************************)
(* Model of the onflow/fixed-point test-vector generators:                 *)
(*   - generators/genTestData.py  (classification of each operation row)   *)
(*   - generators/utils.py, testgen/utils.py  (raw-integer encoders)       *)
(*   - the Add / Sub / Mul / Div literal tables and their generate_*       *)
(*     functions;                                                          *)
(*   - generators/trans64.py with generators/decTrig.py  (the tables of    *)
(*     sqrt, ln, sin, cos, tan, asin, acos and their loops);               *)
(*   - generators/data128.py  (generateFix128Values);                      *)
(*   - generators/genConstants.py  (the search for the multiple of 2 pi,   *)
(*     chebyFitWithOverflowCheck, go_const, main up to the table           *)
(*     expIntPowers).                                                      *)
(*                                                                         *)
(* Python's Decimal values are modelled exactly.  TLC integers are 32 bit, *)
(* so a Decimal is a record                                                *)
(*      [neg, num, den, fl]   =   (-1)^neg * num / (den * BASE^fl)         *)
(* whose num and den are little-endian sequences of base-10^4 limbs.       *)
(* Every literal of the source has den = <<1>>; only Decimal division      *)
(* yields another denominator.  The 64-bit table scripts run with a        *)
(* precision of 50 digits, the other scripts with 100: the sums and        *)
(* products of 64/128-bit values have at most 78 digits and are exact.     *)
(* A quotient a/b is rounded to that precision, a relative error below     *)
(* 1e-49 (64 bit) or 1e-99 (128 bit).  The code compares quotients with    *)
(* bounds t that are multiples of 1e-9 (1e-25): an exact quotient other    *)
(* than t is at least 1e-17/b > 5e-29 (1e-49/b > 2e-64) away from t, the   *)
(* rounded one less than 1e-38 (1e-85) away from the exact one, so the     *)
(* exact rational decides every comparison and every truncation as the     *)
(* rounded quotient does.  The same holds for a * b / c of FMD, whose       *)
(* product is exact.  decClamp is computed with the rounding of the        *)
(* 100-digit context (RoundPrec).  What Decimal.sqrt, ln, exp, ** and the  *)
(* mpmath functions return is given as tables over the operands used.      *)
(***************************************************************************)
EXTENDS Integers, Sequences, FiniteSets, TLC

BASE == 10^4

(* ------------------------------------------------------------------ *)
(* Magnitudes: little-endian sequences of limbs in 0..BASE-1, no high  *)
(* zero limb; the empty sequence is zero.                              *)
(* ------------------------------------------------------------------ *)

RECURSIVE Trim(_)
Trim(m) == IF m = <<>> THEN <<>>
           ELSE IF m[Len(m)] = 0 THEN Trim(SubSeq(m, 1, Len(m) - 1))
           ELSE m

RECURSIVE Rev(_)
Rev(s) == IF s = <<>> THEN <<>> ELSE Append(Rev(Tail(s)), Head(s))

RECURSIVE Zeros(_)
Zeros(n) == IF n = 0 THEN <<>> ELSE <<0>> \o Zeros(n - 1)

\* m * BASE^n
ShiftUp(m, n) == IF m = <<>> THEN <<>> ELSE Zeros(n) \o m

\* floor(m / BASE^n)
ShiftDown(m, n) == IF n >= Len(m) THEN <<>> ELSE SubSeq(m, n + 1, Len(m))

\* m mod BASE^n
LowLimbs(m, n) == Trim(IF n >= Len(m) THEN m ELSE SubSeq(m, 1, n))

RECURSIVE MagCmpFrom(_, _, _)
MagCmpFrom(a, b, i) ==
    IF i = 0 THEN 0
    ELSE IF a[i] < b[i] THEN -1
    ELSE IF a[i] > b[i] THEN 1
    ELSE MagCmpFrom(a, b, i - 1)

\* -1, 0, 1 as a < b, a = b, a > b
MagCmp(a, b) ==
    IF Len(a) < Len(b) THEN -1
    ELSE IF Len(a) > Len(b) THEN 1
    ELSE MagCmpFrom(a, b, Len(a))

RECURSIVE MagAddC(_, _, _)
MagAddC(a, b, c) ==
    IF a = <<>> /\ b = <<>> THEN (IF c = 0 THEN <<>> ELSE <<c>>)
    ELSE LET x == IF a = <<>> THEN 0 ELSE Head(a)
             y == IF b = <<>> THEN 0 ELSE Head(b)
             s == x + y + c
         IN  <<s % BASE>> \o MagAddC(IF a = <<>> THEN <<>> ELSE Tail(a),
                                     IF b = <<>> THEN <<>> ELSE Tail(b),
                                     s \div BASE)

MagAdd(a, b) == MagAddC(a, b, 0)

RECURSIVE MagSubB(_, _, _)
MagSubB(a, b, c) ==
    IF a = <<>> THEN <<>>
    ELSE LET y == IF b = <<>> THEN 0 ELSE Head(b)
             d == Head(a) - y - c
         IN  <<IF d < 0 THEN d + BASE ELSE d>>
               \o MagSubB(Tail(a), IF b = <<>> THEN <<>> ELSE Tail(b),
                          IF d < 0 THEN 1 ELSE 0)

\* a - b for a >= b
MagSub(a, b) == Trim(MagSubB(a, b, 0))

RECURSIVE MagMulSmallC(_, _, _)
MagMulSmallC(a, d, c) ==
    IF a = <<>> THEN (IF c = 0 THEN <<>> ELSE <<c>>)
    ELSE LET p == Head(a) * d + c
         IN  <<p % BASE>> \o MagMulSmallC(Tail(a), d, p \div BASE)

\* a * d for one limb d
MagMulSmall(a, d) == IF d = 0 THEN <<>> ELSE MagMulSmallC(a, d, 0)

\* a*b by Horner's rule over the limbs of b, most significant limb first
RECURSIVE MagMulFrom(_, _, _, _)
MagMulFrom(a, b, i, acc) ==
    IF i = 0 \/ Len(acc) > Len(a) + Len(b) THEN acc
    ELSE MagMulFrom(a, b, i - 1, MagAdd(MagMulSmall(a, b[i]), ShiftUp(acc, 1)))

MagMul(a, b) ==
    IF a = <<>> \/ b = <<>> THEN <<>>
    ELSE IF Len(a) < Len(b) THEN MagMulFrom(b, a, Len(a), <<>>)
    ELSE MagMulFrom(a, b, Len(b), <<>>)

\* the largest d in lo..hi with b*d <= r   (b*lo <= r is given)
RECURSIVE QuotLimb(_, _, _, _)
QuotLimb(r, b, lo, hi) ==
    IF lo >= hi THEN lo
    ELSE IF MagCmp(MagMulSmall(b, (lo + hi + 1) \div 2), r) <= 0
    THEN QuotLimb(r, b, (lo + hi + 1) \div 2, hi)
    ELSE QuotLimb(r, b, lo, ((lo + hi + 1) \div 2) - 1)

\* a \div d and a % d for one limb d > 0, from limb i of a downward
RECURSIVE MagDivSmallFrom(_, _, _, _, _)
MagDivSmallFrom(a, d, i, q, r) ==
    IF i = 0 \/ r >= d \/ Len(q) > Len(a) THEN << Trim(q), r >>
    ELSE MagDivSmallFrom(a, d, i - 1, <<(r * BASE + a[i]) \div d>> \o q, (r * BASE + a[i]) % d)

MagDivSmall(a, d) == MagDivSmallFrom(a, d, Len(a), <<>>, 0)[1]

\* the remainder r with the next limb x of the dividend brought down
BringDown(r, x) == IF r = <<>> /\ x = 0 THEN <<>> ELSE <<x>> \o r

\* the limbs of r above the n - 1 lowest, as a number (r < b * BASE, Len(b) = n)
TopLimbs(r, n) ==
    IF Len(r) > n THEN r[n + 1] * BASE + r[n]
    ELSE IF Len(r) = n THEN r[n] ELSE 0

\* the quotient limb of r by b: rt \div (bt + 1) and rt \div bt bracket it,
\* rt the top limbs of r and bt the top limb of b
QuotLimbEst(r, b, rt, bt) ==
    IF Len(r) < Len(b) THEN 0
    ELSE QuotLimb(r, b, rt \div (bt + 1), IF rt \div bt < BASE THEN rt \div bt ELSE BASE - 1)

\* long division from limb i of a downward, q the quotient limbs found and
\* r the remainder so far
RECURSIVE MagDivModFrom(_, _, _, _, _)
RECURSIVE MagDivModLimb(_, _, _, _, _)
RECURSIVE MagDivModStep(_, _, _, _, _, _)

MagDivModFrom(a, b, i, q, r) ==
    IF i = 0 \/ Len(q) > Len(a) THEN << Trim(q), r >>
    ELSE MagDivModLimb(a, b, i, q, BringDown(r, a[i]))

MagDivModLimb(a, b, i, q, r) ==
    MagDivModStep(a, b, i, q, r, QuotLimbEst(r, b, TopLimbs(r, Len(b)), b[Len(b)]))

MagDivModStep(a, b, i, q, r, d) ==
    IF d = 0
    THEN MagDivModFrom(a, b, i - 1, <<0>> \o q, r)
    ELSE MagDivModFrom(a, b, i - 1, <<d>> \o q, MagSub(r, MagMulSmall(b, d)))

\* the remainder of a division scaled by f, scaled back
Unscale(qr, f) == << qr[1], MagDivSmall(qr[2], f) >>

\* the limb of a the long division by b starts from: the limbs above it
\* are fewer than those of b and make the first remainder
DivStart(a, b) == IF Len(a) < Len(b) THEN 0 ELSE Len(a) - Len(b) + 1

MagDivModAll(a, b, f) ==
    Unscale(MagDivModFrom(a, b, DivStart(a, b), <<>>, ShiftDown(a, DivStart(a, b))), f)

\* the factor that brings the highest limb of b to BASE/2 or more
Normalizer(b) == BASE \div (b[Len(b)] + 1)

\* long division of a by b # 0, most significant limb first:
\* <<quotient, remainder>>.  Dividend and divisor are first scaled by one
\* factor, which leaves the quotient as it is and scales the remainder.
MagDivMod(a, b) ==
    MagDivModAll(MagMulSmall(a, Normalizer(b)), MagMulSmall(b, Normalizer(b)), Normalizer(b))

(* ------------------------------------------------------------------ *)
(* decimal.Decimal                                                     *)
(* ------------------------------------------------------------------ *)

ONE == <<1>>

\* A literal written as its integer digits and its fraction digits, both
\* in groups of four decimal digits: Decimal("123.45678901") is
\* D(<<123>>, <<4567, 8901>>).
D(ip, fp) == [neg |-> FALSE, num |-> Trim(Rev(ip \o fp)), den |-> ONE, fl |-> Len(fp)]
N(ip, fp) == [neg |-> TRUE, num |-> Trim(Rev(ip \o fp)), den |-> ONE, fl |-> Len(fp)]

Max2(i, j) == IF i >= j THEN i ELSE j

\* Decimal.is_zero
is_zero(x) == x.num = <<>>

\* Decimal.copy_sign(1)
copy_sign_1(x) == [x EXCEPT !.neg = FALSE]

\* Decimal.__neg__
DecNeg(x) == [x EXCEPT !.neg = ~x.neg]

\* the magnitudes of x and y over the common denominator x.den*y.den*BASE^(x.fl+y.fl)
CrossX(x, y) == ShiftUp(MagMul(x.num, y.den), y.fl)
CrossY(x, y) == ShiftUp(MagMul(y.num, x.den), x.fl)

\* -1, 0, 1 as x < y, x = y, x > y  (the value comparison of Decimal)
DecCmp(x, y) ==
    LET xs == IF is_zero(x) THEN 0 ELSE IF x.neg THEN -1 ELSE 1
        ys == IF is_zero(y) THEN 0 ELSE IF y.neg THEN -1 ELSE 1
    IN  IF xs < ys THEN -1
        ELSE IF xs > ys THEN 1
        ELSE IF xs = 0 THEN 0
        ELSE xs * MagCmp(CrossX(x, y), CrossY(x, y))

DecLT(x, y) == DecCmp(x, y) < 0
DecGT(x, y) == DecCmp(x, y) > 0
DecLE(x, y) == DecCmp(x, y) <= 0
DecGE(x, y) == DecCmp(x, y) >= 0
DecEQ(x, y) == DecCmp(x, y) = 0

\* x + y for the magnitudes xm, ym of x and y at l limbs of fraction
AddAligned(x, y, l, xm, ym, c) ==
    IF x.neg = y.neg
    THEN [neg |-> x.neg, num |-> MagAdd(xm, ym), den |-> ONE, fl |-> l]
    ELSE IF c = 0 THEN [neg |-> FALSE, num |-> <<>>, den |-> ONE, fl |-> l]
    ELSE IF c > 0 THEN [neg |-> x.neg, num |-> MagSub(xm, ym), den |-> ONE, fl |-> l]
    ELSE [neg |-> y.neg, num |-> MagSub(ym, xm), den |-> ONE, fl |-> l]

AddAt(x, y, l, xm, ym) == AddAligned(x, y, l, xm, ym, MagCmp(xm, ym))

\* Decimal.__add__ of two decimal literals or sums/products of them (den = 1)
DecAdd(x, y) ==
    AddAt(x, y, Max2(x.fl, y.fl),
          ShiftUp(x.num, Max2(x.fl, y.fl) - x.fl), ShiftUp(y.num, Max2(x.fl, y.fl) - y.fl))

\* Decimal.__sub__
DecSub(x, y) == DecAdd(x, DecNeg(y))

\* Decimal.__mul__
DecMul(x, y) ==
    [neg |-> x.neg # y.neg, num |-> MagMul(x.num, y.num),
     den |-> MagMul(x.den, y.den), fl |-> x.fl + y.fl]

\* Decimal.__truediv__ for a nonzero divisor
DecDiv(x, y) ==
    [neg |-> x.neg # y.neg, num |-> ShiftUp(MagMul(x.num, y.den), y.fl),
     den |-> MagMul(x.den, y.num), fl |-> x.fl]

\* num * BASE^fl / (den * BASE^xfl) as <<quotient, remainder>>
QuotRem(x, fl) ==
    IF x.den = ONE
    THEN << ShiftDown(ShiftUp(x.num, fl), x.fl), LowLimbs(ShiftUp(x.num, fl), x.fl) >>
    ELSE MagDivMod(ShiftUp(x.num, fl), ShiftUp(x.den, x.fl))

\* the quotient qr[1], one more if the remainder qr[2] is half of dn or more
\* and the rounding is ROUND_HALF_UP
Rounded(neg, qr, dn, fl, rounding) ==
    [neg |-> neg,
     num |-> IF rounding = "ROUND_HALF_UP" /\ MagCmp(MagAdd(qr[2], qr[2]), dn) >= 0
             THEN MagAdd(qr[1], ONE) ELSE qr[1],
     den |-> ONE, fl |-> fl]

\* Decimal.quantize(Decimal(1) / BASE^fl, rounding): the multiple of
\* BASE^-fl next to x, by ROUND_DOWN (toward zero) or ROUND_HALF_UP.
quantize(x, fl, rounding) ==
    Rounded(x.neg, QuotRem(x, fl), ShiftUp(x.den, x.fl), fl, rounding)

\* a Python int has no negative zero
NoNegZero(t) == [t EXCEPT !.neg = t.neg /\ t.num # <<>>]

\* int(Decimal): truncation toward zero, as a Decimal without fraction
int(x) == NoNegZero(quantize(x, 0, "ROUND_DOWN"))

\* n mod m for a Python int n: the remainder r of |n| by m, or m - r
ModOf(n, m, r) ==
    [neg |-> FALSE, num |-> IF n.neg /\ r # <<>> THEN MagSub(m, r) ELSE r, den |-> ONE, fl |-> 0]

ModPow2(n, m) == ModOf(n, m, IF MagCmp(n.num, m) < 0 THEN n.num ELSE MagDivMod(n.num, m)[2])

\* n & mask for a Python int n and mask = 2^w - 1: n mod 2^w
BitAnd(n, mask) == ModPow2(n, MagAdd(mask.num, ONE))

\* Decimal.__mod__ for a nonzero divisor: x - y * int(x / y), the remainder
\* of the division truncated toward zero (it has the sign of x)
DecMod(x, y) == DecSub(x, DecMul(y, int(DecDiv(x, y))))

\* the number of decimal digits of a limb and of a magnitude
LimbDigits(d) == IF d >= 1000 THEN 4 ELSE IF d >= 100 THEN 3 ELSE IF d >= 10 THEN 2 ELSE 1
MagDigits(m) == IF m = <<>> THEN 0 ELSE 4 * (Len(m) - 1) + LimbDigits(m[Len(m)])

\* 10^n as a magnitude, and m * 10^n
Pow10(n) == ShiftUp(<<10 ^ (n % 4)>>, n \div 4)
ScaleUp(m, n) == ShiftUp(MagMulSmall(m, 10 ^ (n % 4)), n \div 4)

\* m \div 10^n
DropDigits(m, n) == MagDivSmall(ShiftDown(m, n \div 4), 10 ^ (n % 4))

\* the quotient q, one more if the remainder compares with half the
\* divisor as c (1: above, 0: equal) and ROUND_HALF_EVEN rounds up
HalfEven(q, c) ==
    IF c > 0 \/ (c = 0 /\ q # <<>> /\ q[1] % 2 = 1) THEN MagAdd(q, ONE) ELSE q

\* the multiple of 10^n next to m, q being m \div 10^n
RoundDigits(m, n, q) ==
    ScaleUp(HalfEven(q, MagCmp(MagMulSmall(MagSub(m, ScaleUp(q, n)), 2), Pow10(n))), n)

\* the rounding of the decimal context: a result (den = 1) of more than
\* prec digits keeps prec significant digits, ROUND_HALF_EVEN
RoundPrec(x, prec) ==
    IF MagDigits(x.num) <= prec THEN x
    ELSE [x EXCEPT !.num = RoundDigits(x.num, MagDigits(x.num) - prec,
                                       DropDigits(x.num, MagDigits(x.num) - prec))]

(* ------------------------------------------------------------------ *)
(* Values of the decimal and mpmath libraries                          *)
(* ------------------------------------------------------------------ *)

\* Decimal.sqrt, ln, exp and ** and mpmath.sin, cos, tan, asin and acos
\* are library code: the model holds, for every operand it calls them
\* with, the value the library returns at 100 significant digits
\* (getcontext().prec = 100, mpmath.mp.dps = 100), or the exception it
\* raises.  The mpmath values are correct to a unit of the last digit.

\* what a library call returns or raises
Val(v) == [exc |-> "None", val |-> v]
Exc(e) == [exc |-> e, val |-> D(<<0>>, <<>>)]

\* Decimal('Infinity') and Decimal('-Infinity'): a magnitude over 0
Infinity    == [neg |-> FALSE, num |-> ONE, den |-> <<>>, fl |-> 0]
NegInfinity == [neg |-> TRUE, num |-> ONE, den |-> <<>>, fl |-> 0]

\* Decimal.is_infinite
is_infinite(x) == x.den = <<>> /\ x.num # <<>>

\* the row of table for the operand x (for the operands a, b)
Lookup(table, x) == table[CHOOSE i \in 1..Len(table) : DecEQ(table[i][1], x)][2]
Lookup2(table, a, b) ==
    table[CHOOSE i \in 1..Len(table) : DecEQ(table[i][1], a) /\ DecEQ(table[i][2], b)][3]

\* Decimal.sqrt() at prec 100
DecimalSqrt == <<
    << D(<<0>>, <<>>),
       Val(D(<<0>>, <<>>)) >>,
    << D(<<0>>, <<0000, 0001>>),
       Val(D(<<0>>, <<0001>>)) >>,
    << D(<<0>>, <<0001>>),
       Val(D(<<0>>, <<0100>>)) >>,
    << D(<<0>>, <<7000>>),
       Val(D(<<0>>, <<8366, 6002, 6534, 0755, 4797, 8172, 0257, 8518, 7489, 3928, 1536, 9298, 6721, 9981, 1191, 5430, 8041, 8772, 5943, 1700, 9830, 8147, 1196, 4951, 5362>>)) >>,
    << D(<<1>>, <<>>),
       Val(D(<<1>>, <<>>)) >>,
    << D(<<2>>, <<>>),
       Val(D(<<1>>, <<4142, 1356, 2373, 0950, 4880, 1688, 7242, 0969, 8078, 5696, 7187, 5376, 9480, 7317, 6679, 7379, 9073, 2478, 4621, 0703, 8850, 3875, 3432, 7641, 5730>>)) >>,
    << D(<<1844, 6744, 0737>>, <<0955, 1615>>),
       Val(D(<<42, 9496>>, <<7295, 9999, 9999, 9883, 5846, 7817, 3065, 1855, 4529, 7278, 1895, 5797, 6389, 1337, 7863, 4072, 9524, 1031, 3889, 6376, 5491, 8006, 4195, 4300>>)) >>,
    << D(<<922, 3372, 0368>>, <<5477, 5808>>),
       Val(D(<<30, 3700>>, <<0499, 9760, 4969, 2451, 3885, 3002, 6308, 3467, 4538, 9581, 0974, 8982, 3292, 0271, 5226, 8022, 3730, 3988, 7053, 5569, 0794, 8431, 6489, 5200>>)) >>,
    << D(<<1>>, <<5707, 9632>>),
       Val(D(<<1>>, <<2533, 1413, 4604, 7286, 9590, 8213, 2254, 7422, 5672, 8310, 4231, 0155, 7701, 6382, 5181, 1585, 3787, 4054, 3853, 0625, 2008, 0297, 5326, 1274, 2680>>)) >>,
    << D(<<1>>, <<5707, 9633>>),
       Val(D(<<1>>, <<2533, 1413, 8594, 1515, 0220, 1830, 2615, 0117, 0622, 6836, 3158, 9692, 8225, 3637, 3563, 1064, 0940, 1290, 6070, 2690, 8281, 4672, 2524, 3791, 4420>>)) >>,
    << D(<<3>>, <<1415, 9265>>),
       Val(D(<<1>>, <<7724, 5384, 9892, 8540, 5089, 3488, 6359, 9186, 6551, 7403, 4108, 8506, 2761, 4075, 4528, 0664, 0294, 3809, 0849, 1187, 1670, 0876, 0049, 6226, 2050>>)) >>,
    << D(<<3>>, <<1415, 9266>>),
       Val(D(<<1>>, <<7724, 5385, 2713, 8019, 6799, 9132, 6370, 7374, 7978, 9480, 7393, 5710, 9193, 3661, 5588, 9369, 1759, 4517, 5892, 5326, 2658, 2453, 9387, 5229, 0900>>)) >>,
    << D(<<4>>, <<7123, 8898>>),
       Val(D(<<2>>, <<1708, 0376, 3586, 1975, 8129, 1085, 2218, 0327, 5806, 5435, 9956, 5868, 3528, 9494, 6128, 0402, 5842, 4713, 5336, 0918, 6385, 3308, 9779, 6466, 4310>>)) >>,
    << D(<<6>>, <<2831, 8530>>),
       Val(D(<<2>>, <<5066, 2827, 3198, 8802, 0128, 4725, 2891, 2884, 9452, 1531, 8612, 2193, 8275, 8203, 5564, 2848, 6550, 7863, 7006, 4476, 3719, 8443, 3954, 9871, 1240>>)) >>,
    << D(<<0>>, <<9999, 9999>>),
       Val(D(<<0>>, <<9999, 9999, 4999, 9999, 8749, 9999, 9374, 9999, 9609, 3749, 9726, 5624, 9794, 9218, 7338, 8671, 8619, 0795, 8875, 2746, 5727, 5772, 0867, 1760, 5521>>)) >>,
    << D(<<1>>, <<0000, 0001>>),
       Val(D(<<1>>, <<0000, 0000, 4999, 9999, 8750, 0000, 0624, 9999, 9609, 3750, 0273, 4374, 9794, 9218, 7661, 1328, 1119, 0795, 9093, 4753, 4086, 9522, 1027, 3551, 9340>>)) >>,
    << D(<<4>>, <<>>),
       Val(D(<<2>>, <<>>)) >>,
    << D(<<2>>, <<7182, 8183>>),
       Val(D(<<1>>, <<6487, 2127, 1167, 4463, 0177, 4547, 1108, 2635, 9715, 5603, 9165, 0268, 9857, 6127, 0022, 5217, 8692, 6302, 9939, 7845, 1953, 4623, 0564, 3717, 1170>>)) >>,
    << D(<<25>>, <<9408, 1146>>),
       Val(D(<<5>>, <<0932, 1229, 2846, 2347, 7690, 3334, 9672, 8702, 2609, 7178, 5388, 5717, 5822, 9582, 1595, 3622, 8177, 0917, 0415, 1495, 5630, 8858, 6092, 8328, 0510>>)) >>,
    << D(<<0>>, <<2500>>),
       Val(D(<<0>>, <<5000>>)) >>,
    << D(<<922, 3372, 0368>>, <<5477, 5807>>),
       Val(D(<<30, 3700>>, <<0499, 9760, 4969, 2286, 7524, 0303, 0628, 5350, 7307, 9578, 5271, 2538, 1731, 4782, 9113, 4244, 0152, 8508, 5232, 0194, 0676, 2070, 3546, 2300>>)) >>,
    << N(<<0>>, <<0000, 0001>>),
       Exc("InvalidOperation") >>,
    << N(<<0>>, <<7000>>),
       Exc("InvalidOperation") >>,
    << N(<<1>>, <<>>),
       Exc("InvalidOperation") >>,
    << N(<<2>>, <<>>),
       Exc("InvalidOperation") >>,
    << N(<<922, 3372, 0368>>, <<5477, 5808>>),
       Exc("InvalidOperation") >>,
    << N(<<1>>, <<5707, 9633>>),
       Exc("InvalidOperation") >>,
    << N(<<3>>, <<1415, 9265>>),
       Exc("InvalidOperation") >>,
    << D(<<6>>, <<2831, 8531>>),
       Val(D(<<2>>, <<5066, 2827, 5193, 5916, 0363, 7863, 3547, 0921, 0006, 8022, 4578, 0251, 9875, 4431, 2009, 8301, 6219, 4269, 3909, 3110, 4398, 9808, 6267, 8392, 7750>>)) >>,
    << N(<<18>>, <<4200>>),
       Exc("InvalidOperation") >>,
    << N(<<18>>, <<5000>>),
       Exc("InvalidOperation") >>,
    << N(<<19>>, <<2000>>),
       Exc("InvalidOperation") >>,
    << D(<<25>>, <<9000>>),
       Val(D(<<5>>, <<0892, 0425, 9999, 7890, 0434, 2301, 6347, 4327, 0496, 3225, 7029, 6388, 0809, 9114, 7096, 2222, 0026, 6659, 9743, 1335, 7863, 8851, 0194, 7197, 5250>>)) >>,
    << D(<<26>>, <<>>),
       Val(D(<<5>>, <<0990, 1951, 3592, 7848, 3002, 8224, 1090, 2278, 1989, 5637, 7094, 6099, 5964, 0758, 4970, 8044, 2593, 3632, 0622, 2419, 5588, 3488, 5109, 3932, 0080>>)) >>,
    << D(<<89>>, <<>>),
       Val(D(<<9>>, <<4339, 8113, 2056, 6038, 1132, 0660, 3776, 2264, 0716, 9836, 2263, 3415, 1213, 2066, 2981, 4489, 8002, 2909, 5851, 1805, 8541, 0269, 8689, 0384, 1050>>)) >>,
    << N(<<4>>, <<>>),
       Exc("InvalidOperation") >>,
    << N(<<300, 0000>>, <<>>),
       Exc("InvalidOperation") >>,
    << D(<<461, 1686, 0184>>, <<2738, 7903>>),
       Val(D(<<21, 4748>>, <<3647, 9999, 9999, 9767, 1693, 5634, 6130, 3710, 8112, 8225, 5164, 6381, 1112, 0438, 8742, 3908, 2161, 5421, 9282, 0595, 3970, 2132, 4074, 1900>>)) >>,
    << N(<<0>>, <<0001>>),
       Exc("InvalidOperation") >>,
    << D(<<3>>, <<>>),
       Val(D(<<1>>, <<7320, 5080, 7568, 8772, 9352, 7446, 3415, 0587, 2366, 9428, 0525, 3810, 3806, 2805, 5806, 9794, 5193, 3016, 9088, 0003, 7081, 1461, 8675, 7248, 5760>>)) >>,
    << N(<<3>>, <<>>),
       Exc("InvalidOperation") >>,
    << D(<<0>>, <<0000, 0000, 0000, 0000, 0000, 0001>>),
       Val(D(<<0>>, <<0000, 0000, 0001>>)) >>,
    << D(<<0>>, <<0000, 0000, 0001>>),
       Val(D(<<0>>, <<0000, 0100>>)) >>,
    << D(<<340, 2823, 6692, 0938>>, <<4634, 6337, 4607, 4317, 6821, 1455>>),
       Val(D(<<1844, 6744>>, <<0737, 0955, 1615, 9999, 9999, 9999, 9999, 9997, 2894, 9456, 8786, 2389, 1498, 1367, 9978, 2514, 5721, 4335, 5551, 0111, 0844, 3465, 3714>>)) >>,
    << D(<<170, 1411, 8346, 0469>>, <<2317, 3168, 7303, 7158, 8410, 5728>>),
       Val(D(<<1304, 3817>>, <<8253, 3278, 2212, 3495, 7180, 6252, 5083, 6888, 3276, 2895, 9285, 8578, 7320, 7567, 6535, 1683, 1880, 2626, 9985, 6072, 0113, 3963, 8674>>)) >>,
    << D(<<1>>, <<5707, 9632, 6794, 8966, 1923, 1321>>),
       Val(D(<<1>>, <<2533, 1413, 7315, 5002, 5120, 7882, 3664, 8118, 2969, 9125, 9841, 4318, 1665, 2351, 4056, 6926, 5841, 4242, 6578, 3918, 0124, 5538, 6001, 6123, 1790>>)) >>,
    << D(<<1>>, <<5707, 9632, 6794, 8966, 1923, 1322>>),
       Val(D(<<1>>, <<2533, 1413, 7315, 5002, 5120, 7882, 7654, 2346, 3371, 3452, 7635, 4264, 2507, 9370, 5142, 3545, 9386, 0822, 3192, 0006, 9638, 1136, 9344, 0962, 9530>>)) >>,
    << D(<<3>>, <<1415, 9265, 3589, 7932, 3846, 2643>>),
       Val(D(<<1>>, <<7724, 5385, 0905, 5160, 2729, 8167, 3752, 1999, 3625, 4844, 2162, 7938, 7078, 7819, 0705, 6958, 3775, 1182, 3344, 8891, 5063, 0379, 2717, 0750, 5980>>)) >>,
    << D(<<3>>, <<1415, 9265, 3589, 7932, 3846, 2644>>),
       Val(D(<<1>>, <<7724, 5385, 0905, 5160, 2729, 8167, 6573, 1478, 5399, 3625, 6510, 1978, 4284, 1820, 2456, 1064, 0447, 3435, 5332, 3403, 3221, 1344, 4347, 4905, 6750>>)) >>,
    << D(<<4>>, <<7123, 8898, 0384, 6898, 5769, 3965>>),
       Val(D(<<2>>, <<1708, 0376, 3674, 8029, 7808, 9043, 8646, 1627, 7935, 2895, 1166, 5121, 4526, 2914, 0428, 5307, 9035, 7447, 9631, 6280, 0554, 2936, 4087, 5870, 3150>>)) >>,
    << D(<<6>>, <<2831, 8530, 7179, 5864, 7692, 5286>>),
       Val(D(<<2>>, <<5066, 2827, 4631, 0005, 0241, 5765, 1319, 0464, 6341, 2578, 7476, 8582, 4490, 6403, 7166, 1677, 3716, 7946, 6353, 1631, 4269, 3297, 8845, 9484, 9130>>)) >>,
    << D(<<0>>, <<9999, 9999, 9999, 9999, 9999, 9999>>),
       Val(D(<<0>>, <<9999, 9999, 9999, 9999, 9999, 9999, 4999, 9999, 9999, 9999, 9999, 9999, 8749, 9999, 9999, 9999, 9999, 9999, 9374, 9999, 9999, 9999, 9999, 9999, 9609>>)) >>,
    << D(<<1>>, <<0000, 0000, 0000, 0000, 0000, 0001>>),
       Val(D(<<1>>, <<0000, 0000, 0000, 0000, 0000, 0000, 4999, 9999, 9999, 9999, 9999, 9999, 8750, 0000, 0000, 0000, 0000, 0000, 0624, 9999, 9999, 9999, 9999, 9999, 9610>>)) >>,
    << D(<<2>>, <<7182, 8182, 8459, 0452, 3536, 0287>>),
       Val(D(<<1>>, <<6487, 2127, 0700, 1281, 4684, 8650, 6448, 6924, 2900, 6183, 0074, 9554, 8085, 7401, 9210, 0561, 9949, 1590, 5488, 5392, 5882, 8893, 4076, 3649, 6560>>)) >>,
    << D(<<33>>, <<4600>>),
       Val(D(<<5>>, <<7844, 6194, 5591, 8283, 3595, 8543, 4372, 4587, 6931, 8691, 0453, 5919, 5338, 6438, 6541, 5818, 3397, 2151, 1505, 6322, 7406, 5819, 2631, 4873, 5090>>)) >>,
    << D(<<170, 1411, 8346, 0469>>, <<2317, 3168, 7303, 7158, 8410, 5727>>),
       Val(D(<<1304, 3817>>, <<8253, 3278, 2212, 3495, 7180, 6252, 5083, 6884, 4943, 9541, 7577, 4226, 6961, 0442, 7219, 6516, 3200, 0241, 0033, 8714, 9716, 3189, 1808>>)) >>,
    << N(<<0>>, <<0000, 0000, 0000, 0000, 0000, 0001>>),
       Exc("InvalidOperation") >>,
    << N(<<170, 1411, 8346, 0469>>, <<2317, 3168, 7303, 7158, 8410, 5728>>),
       Exc("InvalidOperation") >>,
    << N(<<1>>, <<5707, 9632, 6794, 8966, 1923, 1322>>),
       Exc("InvalidOperation") >>,
    << N(<<3>>, <<1415, 9265, 3589, 7932, 3846, 2643>>),
       Exc("InvalidOperation") >>,
    << D(<<6>>, <<2831, 8530, 7179, 5864, 7692, 5287>>),
       Val(D(<<2>>, <<5066, 2827, 4631, 0005, 0241, 5765, 3313, 7578, 6541, 9742, 1373, 8555, 4832, 6242, 8217, 2185, 8366, 8016, 0495, 3274, 4271, 8544, 6349, 2327, 1880>>)) >>,
    << N(<<55>>, <<2600>>),
       Exc("InvalidOperation") >>,
    << N(<<55>>, <<5000>>),
       Exc("InvalidOperation") >>,
    << N(<<56>>, <<>>),
       Exc("InvalidOperation") >>,
    << D(<<33>>, <<4000>>),
       Val(D(<<5>>, <<7792, 7331, 0719, 9559, 0562, 2472, 0659, 5246, 8866, 3194, 9836, 8544, 7217, 8577, 5633, 3942, 7228, 9311, 5793, 0393, 0394, 9932, 5154, 3287, 5770>>)) >>,
    << D(<<33>>, <<5000>>),
       Val(D(<<5>>, <<7879, 1845, 1395, 1127, 3677, 7905, 0559, 7742, 6893, 5500, 5177, 6255, 0342, 5659, 4262, 3960, 3135, 3950, 0651, 6905, 2227, 8900, 9057, 3271, 9810>>)) >>,
    << D(<<85, 0705, 9173, 0234>>, <<6158, 6584, 3651, 8579, 4205, 2863>>),
       Val(D(<<922, 3372>>, <<0368, 5477, 5807, 9999, 9999, 9999, 9999, 9994, 5789, 8913, 7572, 4778, 2996, 2735, 9956, 5029, 1442, 8551, 6283, 0888, 6754, 7722, 9711, 2000>>)) >>,
    << N(<<0>>, <<0000, 0000, 0001>>),
       Exc("InvalidOperation") >>,
    << D(<<16>>, <<>>),
       Val(D(<<4>>, <<>>)) >>,
    << D(<<100>>, <<>>),
       Val(D(<<10>>, <<>>)) >>,
    << D(<<1, 0000>>, <<>>),
       Val(D(<<100>>, <<>>)) >>,
    << D(<<0>>, <<0500>>),
       Val(D(<<0>>, <<2236, 0679, 7749, 9789, 6964, 0917, 3668, 7312, 7623, 5440, 6183, 5961, 1525, 7242, 7089, 7245, 4105, 2092, 5637, 8048, 9941, 4414, 4083, 7878, 2275>>)) >>,
    << D(<<0>>, <<5000>>),
       Val(D(<<0>>, <<7071, 0678, 1186, 5475, 2440, 0844, 3621, 0484, 9039, 2848, 3593, 7688, 4740, 3658, 8339, 8689, 9536, 6239, 2310, 5351, 9425, 1937, 6716, 3820, 7864>>)) >>,
    << D(<<0>>, <<0900>>),
       Val(D(<<0>>, <<3000>>)) >>,
    << D(<<0>>, <<0009>>),
       Val(D(<<0>>, <<0300>>)) >>,
    << D(<<12, 3456, 7890>>, <<1234, 5678>>),
       Val(D(<<3, 5136>>, <<4182, 8820, 1442, 4028, 6429, 5912, 4133, 5148, 5571, 0659, 3231, 2795, 6230, 3493, 1238, 6996, 3747, 1576, 5810, 8602, 6604, 3872, 3216, 0220>>)) >>
>>

\* Decimal.ln() at prec 100
DecimalLn == <<
    << D(<<0>>, <<>>),
       Val(NegInfinity) >>,
    << D(<<0>>, <<0000, 0001>>),
       Val(N(<<18>>, <<4206, 8074, 3952, 3654, 7214, 3931, 6374, 7491, 3660, 8088, 1190, 9030, 1838, 0826, 6623, 2077, 4058, 0877, 4188, 1984, 1887, 9776, 4071, 6786, 3900>>)) >>,
    << D(<<0>>, <<0001>>),
       Val(N(<<9>>, <<2103, 4037, 1976, 1827, 3607, 1965, 8187, 3745, 6830, 4044, 0595, 4515, 0919, 0413, 3311, 6038, 7029, 0438, 7094, 0992, 0943, 9888, 2035, 8393, 1930>>)) >>,
    << D(<<0>>, <<7000>>),
       Val(N(<<0>>, <<3566, 7494, 3938, 7323, 7891, 2638, 7112, 4118, 4477, 9640, 1675, 9046, 9117, 8757, 3937, 7510, 2999, 2746, 9252, 8321, 2448, 3387, 0650, 1726, 7713>>)) >>,
    << D(<<1>>, <<>>),
       Val(D(<<0>>, <<>>)) >>,
    << D(<<2>>, <<>>),
       Val(D(<<0>>, <<6931, 4718, 0559, 9453, 0941, 7232, 1214, 5817, 6568, 0755, 0013, 4360, 2552, 5412, 0680, 0094, 9339, 3621, 9696, 9471, 5605, 8633, 2699, 6418, 6875>>)) >>,
    << D(<<1844, 6744, 0737>>, <<0955, 1615>>),
       Val(D(<<25>>, <<9407, 3881, 1884, 1343, 3050, 4714, 0272, 2411, 1474, 3213, 5468, 2044, 1275, 1050, 0594, 3136, 0137, 8706, 4684, 6550, 3219, 2458, 1364, 7447, 5300>>)) >>,
    << D(<<922, 3372, 0368>>, <<5477, 5808>>),
       Val(D(<<25>>, <<2475, 9163, 1324, 1890, 2114, 1692, 0143, 9021, 0127, 9476, 9655, 5665, 8972, 0133, 6217, 3903, 4321, 7306, 6719, 4724, 1281, 4119, 6005, 7590, 9300>>)) >>,
    << D(<<1>>, <<5707, 9632>>),
       Val(D(<<0>>, <<4515, 8270, 0963, 6893, 1637, 3779, 3977, 8252, 8426, 3942, 6797, 3020, 4609, 0828, 7646, 5624, 1491, 0185, 7814, 6110, 9915, 3682, 5738, 0302, 0356>>)) >>,
    << D(<<1>>, <<5707, 9633>>),
       Val(D(<<0>>, <<4515, 8270, 7329, 8870, 4732, 4034, 8573, 9708, 2819, 9840, 8256, 0303, 9726, 3553, 6718, 2340, 5989, 5377, 4623, 7697, 0113, 9046, 7136, 2222, 2201>>)) >>,
    << D(<<3>>, <<1415, 9265>>),
       Val(D(<<1>>, <<1447, 2988, 4706, 7334, 9633, 2198, 4427, 4250, 4832, 8021, 3404, 3357, 6992, 7467, 2203, 0342, 2915, 6208, 5201, 2963, 1414, 8684, 7428, 0912, 3940>>)) >>,
    << D(<<3>>, <<1415, 9266>>),
       Val(D(<<1>>, <<1447, 2988, 7889, 8323, 5674, 1266, 9788, 5525, 9388, 0595, 8269, 4664, 2278, 8965, 7398, 2435, 5328, 8999, 4320, 7168, 5719, 7679, 9835, 8640, 9080>>)) >>,
    << D(<<4>>, <<7123, 8898>>),
       Val(D(<<1>>, <<5501, 9499, 3875, 9308, 3290, 5691, 9989, 9121, 8221, 1628, 0359, 6732, 8077, 4540, 0815, 2481, 6753, 0425, 1773, 4923, 9859, 9382, 6184, 3400, 6320>>)) >>,
    << D(<<6>>, <<2831, 8530>>),
       Val(D(<<1>>, <<8378, 7706, 5266, 6788, 0574, 9430, 5642, 0068, 1400, 8776, 3417, 7717, 9545, 2879, 2883, 0437, 2254, 9830, 4898, 2434, 7020, 7318, 0127, 7331, 0820>>)) >>,
    << D(<<0>>, <<9999, 9999>>),
       Val(N(<<0>>, <<0000, 0001, 0000, 0000, 5000, 0000, 3333, 3333, 5833, 3333, 5333, 3333, 5000, 0000, 1428, 5714, 4107, 1428, 6825, 3968, 3539, 6825, 4877, 3448, 8567, 8210, 7550>>)) >>,
    << D(<<1>>, <<0000, 0001>>),
       Val(D(<<0>>, <<0000, 0000, 9999, 9999, 5000, 0000, 3333, 3333, 0833, 3333, 5333, 3333, 1666, 6666, 8095, 2380, 8273, 8095, 3492, 0634, 8206, 3492, 1544, 0115, 3567, 8210, 7551>>)) >>,
    << D(<<4>>, <<>>),
       Val(D(<<1>>, <<3862, 9436, 1119, 8906, 1883, 4464, 2429, 1635, 3136, 1510, 0026, 8720, 5105, 0824, 1360, 0189, 8678, 7243, 9393, 8943, 1211, 7266, 5399, 2837, 3750>>)) >>,
    << D(<<2>>, <<7182, 8183>>),
       Val(D(<<1>>, <<0000, 0000, 0566, 8855, 7752, 5449, 2447, 2945, 1857, 8809, 5152, 9692, 7367, 3368, 4884, 2476, 9175, 8230, 9605, 3409, 4632, 8428, 2205, 4747, 4550>>)) >>,
    << D(<<25>>, <<9408, 1146>>),
       Val(D(<<3>>, <<2558, 1746, 0588, 6887, 9761, 9067, 8211, 3897, 5403, 6790, 5947, 6884, 8232, 7702, 9596, 6653, 6281, 4263, 7581, 8510, 7723, 4630, 5585, 8503, 5760>>)) >>,
    << D(<<0>>, <<2500>>),
       Val(N(<<1>>, <<3862, 9436, 1119, 8906, 1883, 4464, 2429, 1635, 3136, 1510, 0026, 8720, 5105, 0824, 1360, 0189, 8678, 7243, 9393, 8943, 1211, 7266, 5399, 2837, 3750>>)) >>,
    << D(<<0>>, <<0000, 0000, 0000, 0000, 0000, 0001>>),
       Val(N(<<55>>, <<2620, 4223, 1857, 0964, 1643, 1794, 9124, 2474, 0982, 4264, 3572, 7090, 5514, 2479, 9869, 6232, 2174, 2632, 2564, 5952, 5663, 9329, 2215, 0359, 1600>>)) >>,
    << D(<<0>>, <<0000, 0000, 0001>>),
       Val(N(<<27>>, <<6310, 2111, 5928, 5482, 0821, 5897, 4562, 1237, 0491, 2132, 1786, 3545, 2757, 1239, 9934, 8116, 1087, 1316, 1282, 2976, 2831, 9664, 6107, 5179, 5800>>)) >>,
    << D(<<340, 2823, 6692, 0938>>, <<4634, 6337, 4607, 4317, 6821, 1455>>),
       Val(D(<<33>>, <<4607, 9687, 9815, 9031, 8897, 3916, 6342, 2185, 9731, 2346, 4273, 5145, 0653, 8387, 7249, 7505, 8958, 5365, 6699, 1308, 9910, 3651, 6736, 5148, 2700>>)) >>,
    << D(<<170, 1411, 8346, 0469>>, <<2317, 3168, 7303, 7158, 8410, 5728>>),
       Val(D(<<32>>, <<7676, 4969, 9255, 9578, 7955, 6684, 5127, 6368, 3163, 1620, 8133, 6661, 8658, 4852, 6491, 5824, 3924, 7357, 8947, 6935, 6280, 7096, 0639, 4814, 1600>>)) >>,
    << D(<<1>>, <<5707, 9632, 6794, 8966, 1923, 1321>>),
       Val(D(<<0>>, <<4515, 8270, 5289, 4548, 6472, 6194, 7895, 8334, 1020, 1324, 5372, 6001, 3508, 5181, 4491, 7626, 9775, 6483, 7515, 5063, 5380, 8257, 6873, 7390, 5734>>)) >>,
    << D(<<1>>, <<5707, 9632, 6794, 8966, 1923, 1322>>),
       Val(D(<<0>>, <<4515, 8270, 5289, 4548, 6472, 6195, 4262, 0311, 3387, 7137, 9680, 1536, 4820, 1053, 7736, 0478, 7820, 2544, 1405, 1948, 2925, 3224, 7134, 8245, 8594>>)) >>,
    << D(<<3>>, <<1415, 9265, 3589, 7932, 3846, 2643>>),
       Val(D(<<1>>, <<1447, 2988, 5849, 4001, 7414, 3427, 2293, 5140, 3771, 9986, 2539, 8129, 2223, 4588, 8615, 0836, 6709, 5075, 6596, 9599, 0663, 1988, 9436, 2454, 1700>>)) >>,
    << D(<<3>>, <<1415, 9265, 3589, 7932, 3846, 2644>>),
       Val(D(<<1>>, <<1447, 2988, 5849, 4001, 7414, 3427, 5476, 6128, 9955, 7892, 9693, 5896, 7372, 6465, 8416, 0573, 7159, 6166, 1102, 1419, 8531, 1857, 9834, 4664, 5470>>)) >>,
    << D(<<4>>, <<7123, 8898, 0384, 6898, 5769, 3965>>),
       Val(D(<<1>>, <<5501, 9499, 3957, 5645, 5612, 1440, 4509, 1904, 8303, 1675, 0633, 4180, 8994, 4100, 1856, 6587, 9841, 2096, 9987, 0124, 4687, 0841, 1904, 2264, 0470>>)) >>,
    << D(<<6>>, <<2831, 8530, 7179, 5864, 7692, 5286>>),
       Val(D(<<1>>, <<8378, 7706, 6409, 3454, 8356, 0659, 3508, 0958, 0340, 0741, 2553, 2489, 4776, 0000, 9295, 0931, 6048, 8697, 6293, 9070, 6269, 0622, 2135, 8872, 8580>>)) >>,
    << D(<<0>>, <<9999, 9999, 9999, 9999, 9999, 9999>>),
       Val(N(<<0>>, <<0000, 0000, 0000, 0000, 0000, 0001, 0000, 0000, 0000, 0000, 0000, 0000, 5000, 0000, 0000, 0000, 0000, 0000, 3333, 3333, 3333, 3333, 3333, 3333, 5833, 3333, 3333, 3333, 3333, 3333, 5330>>)) >>,
    << D(<<1>>, <<0000, 0000, 0000, 0000, 0000, 0001>>),
       Val(D(<<0>>, <<0000, 0000, 0000, 0000, 0000, 0000, 9999, 9999, 9999, 9999, 9999, 9999, 5000, 0000, 0000, 0000, 0000, 0000, 3333, 3333, 3333, 3333, 3333, 3333, 0833, 3333, 3333, 3333, 3333, 3333, 5333>>)) >>,
    << D(<<2>>, <<7182, 8182, 8459, 0452, 3536, 0287>>),
       Val(D(<<0>>, <<9999, 9999, 9999, 9999, 9999, 9999, 8265, 9904, 5925, 6536, 0543, 6623, 8948, 3327, 1669, 7678, 7323, 6215, 8588, 2503, 3343, 2072, 3165, 5594, 9407>>)) >>,
    << D(<<33>>, <<4600>>),
       Val(D(<<3>>, <<5103, 5069, 5558, 6779, 1344, 9765, 5497, 9453, 6978, 9481, 8624, 2487, 5401, 6128, 2397, 1733, 0449, 7938, 7079, 4148, 1929, 5209, 1366, 4825, 5480>>)) >>,
    << D(<<10>>, <<>>),
       Val(D(<<2>>, <<3025, 8509, 2994, 0456, 8401, 7991, 4546, 8436, 4207, 6011, 0148, 8628, 7729, 7603, 3327, 9009, 6757, 2609, 6773, 5248, 0235, 9972, 0508, 9598, 2980>>)) >>,
    << D(<<100>>, <<>>),
       Val(D(<<4>>, <<6051, 7018, 5988, 0913, 6803, 5982, 9093, 6872, 8415, 2022, 0297, 7257, 5459, 5206, 6655, 8019, 3514, 5219, 3547, 0496, 0471, 9944, 1017, 9196, 5970>>)) >>,
    << D(<<1, 0000>>, <<>>),
       Val(D(<<9>>, <<2103, 4037, 1976, 1827, 3607, 1965, 8187, 3745, 6830, 4044, 0595, 4515, 0919, 0413, 3311, 6038, 7029, 0438, 7094, 0992, 0943, 9888, 2035, 8393, 1930>>)) >>,
    << D(<<7>>, <<3890, 5610>>),
       Val(D(<<2>>, <<0000, 0000, 0144, 7207, 5436, 6305, 4733, 5067, 3776, 5425, 4885, 4988, 0518, 1935, 2002, 6494, 7391, 9099, 6532, 4863, 3760, 4965, 3547, 4281, 2010>>)) >>,
    << D(<<0>>, <<5000>>),
       Val(N(<<0>>, <<6931, 4718, 0559, 9453, 0941, 7232, 1214, 5817, 6568, 0755, 0013, 4360, 2552, 5412, 0680, 0094, 9339, 3621, 9696, 9471, 5605, 8633, 2699, 6418, 6875>>)) >>,
    << D(<<0>>, <<1250>>),
       Val(N(<<2>>, <<0794, 4154, 1679, 8359, 2825, 1696, 3643, 7452, 9704, 2265, 0040, 3080, 7657, 6236, 2040, 0284, 8018, 0865, 9090, 8414, 6817, 5899, 8098, 9256, 0630>>)) >>,
    << D(<<0>>, <<0100>>),
       Val(N(<<4>>, <<6051, 7018, 5988, 0913, 6803, 5982, 9093, 6872, 8415, 2022, 0297, 7257, 5459, 5206, 6655, 8019, 3514, 5219, 3547, 0496, 0471, 9944, 1017, 9196, 5970>>)) >>,
    << D(<<12, 3456, 7890>>, <<1234, 5678>>),
       Val(D(<<20>>, <<9339, 8685, 9262, 0637, 0991, 6924, 7370, 3790, 1126, 9521, 3575, 0865, 3542, 0227, 7225, 7614, 3134, 1902, 0878, 6342, 0358, 3171, 4428, 1353, 2500>>)) >>,
    << D(<<922, 3372, 0368>>, <<5477, 5807>>),
       Val(D(<<25>>, <<2475, 9163, 1324, 1890, 2103, 3271, 7971, 4165, 9684, 5410, 7380, 3824, 7915, 9265, 3370, 7581, 4747, 0757, 6756, 1166, 7383, 9264, 2152, 3385>>)) >>,
    << D(<<0>>, <<0000, 0000, 5000>>),
       Val(N(<<19>>, <<1138, 2792, 4512, 3107, 8156, 1163, 7589, 3309, 0228, 8843, 1204, 3390, 4390, 6238, 7303, 2172, 3397, 4499, 3885, 1455, 7493, 8409, 6771, 3205, 0700>>)) >>,
    << D(<<0>>, <<0000, 0000, 0000, 0000, 0000, 0000, 5000>>),
       Val(N(<<55>>, <<9551, 8941, 2417, 0417, 2584, 9027, 0338, 8291, 7550, 5019, 3586, 1450, 8066, 7892, 0549, 6327, 1513, 6254, 2261, 5424, 1269, 7962, 4914, 6777, 8500>>)) >>
>>

\* Decimal.exp() at prec 100
DecimalExp == <<
    << D(<<0>>, <<>>),
       Val(D(<<1>>, <<>>)) >>,
    << D(<<0>>, <<0000, 0001>>),
       Val(D(<<1>>, <<0000, 0001, 0000, 0000, 5000, 0000, 1666, 6666, 7083, 3333, 3416, 6666, 6680, 5555, 5557, 5396, 8254, 2162, 6984, 1545, 4144, 6235, 6701, 9402, 8580>>)) >>,
    << D(<<0>>, <<7000>>),
       Val(D(<<2>>, <<0137, 5270, 7470, 4765, 2162, 4549, 3885, 8306, 5270, 0175, 4239, 4145, 8673, 1156, 8989, 3008, 7978, 1300, 8588, 6794, 0632, 4379, 3558, 5178, 8040>>)) >>,
    << D(<<1>>, <<>>),
       Val(D(<<2>>, <<7182, 8182, 8459, 0452, 3536, 0287, 4713, 5266, 2497, 7572, 4709, 3699, 9595, 7496, 6967, 6277, 2407, 6630, 3535, 4759, 4571, 3821, 7852, 5166, 4270>>)) >>,
    << D(<<2>>, <<>>),
       Val(D(<<7>>, <<3890, 5609, 8930, 6502, 2723, 0427, 4605, 7500, 7813, 1803, 1557, 0551, 8473, 2408, 7127, 8225, 2257, 3796, 0790, 5776, 3384, 3124, 8507, 9121, 7950>>)) >>,
    << D(<<922, 3372, 0368>>, <<5477, 5807>>),
       Exc("Overflow") >>,
    << N(<<0>>, <<0000, 0001>>),
       Val(D(<<0>>, <<9999, 9999, 0000, 0000, 4999, 9999, 8333, 3333, 3749, 9999, 9916, 6666, 6680, 5555, 5553, 5714, 2857, 3908, 7301, 5597, 4426, 8105, 1587, 3013, 3678>>)) >>,
    << N(<<0>>, <<7000>>),
       Val(D(<<0>>, <<4965, 8530, 3791, 4095, 1470, 4800, 0933, 9752, 8961, 7076, 6716, 5711, 8162, 6205, 4711, 4970, 1724, 3570, 0729, 0333, 3175, 0415, 0306, 1908, 1313>>)) >>,
    << N(<<1>>, <<>>),
       Val(D(<<0>>, <<3678, 7944, 1171, 4423, 2159, 5523, 7701, 6146, 0867, 4458, 1113, 1031, 7678, 3450, 7836, 8016, 9746, 1495, 7448, 9980, 3357, 1472, 7434, 5919, 6437>>)) >>,
    << N(<<2>>, <<>>),
       Val(D(<<0>>, <<1353, 3528, 3236, 6126, 9189, 3999, 4949, 7248, 4403, 4076, 3154, 5909, 5758, 8146, 8158, 8726, 5407, 3374, 1014, 8768, 9937, 0981, 2249, 0657, 0488>>)) >>,
    << N(<<922, 3372, 0368>>, <<5477, 5808>>),
       Val(D(<<0>>, <<>>)) >>,
    << D(<<1>>, <<5707, 9632>>),
       Val(D(<<4>>, <<8104, 7734, 8278, 6552, 7371, 4186, 4763, 1507, 7120, 5051, 6868, 9408, 4111, 9195, 2477, 2442, 3752, 0875, 6387, 4350, 9048, 9984, 2454, 4725, 5490>>)) >>,
    << D(<<1>>, <<5707, 9633>>),
       Val(D(<<4>>, <<8104, 7739, 6383, 4289, 9702, 4607, 4291, 3593, 2286, 8400, 4178, 7415, 8611, 2481, 6852, 4319, 8985, 9186, 2863, 3566, 0295, 3883, 0106, 2404, 4510>>)) >>,
    << D(<<3>>, <<1415, 9265>>),
       Val(D(<<23>>, <<1406, 9254, 9708, 9672, 0833, 8364, 9574, 0933, 3316, 0784, 7153, 4201, 1736, 0633, 3619, 6913, 4089, 2055, 4356, 3128, 6047, 4854, 7734, 1186, 4600>>)) >>,
    << D(<<3>>, <<1415, 9266>>),
       Val(D(<<23>>, <<1406, 9278, 1115, 8938, 6246, 2668, 3830, 2344, 4567, 2065, 0228, 4493, 5413, 5880, 0033, 7457, 5662, 6097, 0056, 8654, 2739, 3544, 4081, 7923, 4500>>)) >>,
    << N(<<1>>, <<5707, 9633>>),
       Val(D(<<0>>, <<2078, 7957, 5684, 4863, 7666, 0109, 0205, 4129, 2346, 4692, 1085, 1357, 6294, 1573, 3300, 9839, 8350, 9020, 2051, 5939, 2438, 7453, 4422, 7020, 8704>>)) >>,
    << N(<<3>>, <<1415, 9265>>),
       Val(D(<<0>>, <<0432, 1391, 8418, 9012, 8164, 3625, 2678, 1437, 3199, 2159, 4227, 3761, 4070, 8546, 7536, 3607, 9325, 0330, 5689, 3239, 7728, 3112, 8533, 0036, 2519>>)) >>,
    << D(<<6>>, <<2831, 8531>>),
       Val(D(<<535>>, <<4916, 5703, 5072, 6453, 6860, 8190, 9650, 8774, 2147, 6481, 0463, 4051, 3994, 1370, 0415, 0796, 3411, 1135, 0050, 5028, 5003, 0332, 4581, 2236, 2000>>)) >>,
    << N(<<18>>, <<4200>>),
       Val(D(<<0>>, <<0000, 0001, 0006, 8097, 5711, 1162, 8576, 9190, 0651, 3818, 3573, 1832, 2814, 3404, 9321, 0281, 9724, 8086, 1669, 7852, 9240, 8518, 6709, 5183, 0294, 5566, 5280>>)) >>,
    << N(<<18>>, <<5000>>),
       Val(D(<<0>>, <<0000, 0000, 9237, 4496, 6197, 0594, 8978, 8317, 0384, 5977, 5806, 4645, 8358, 5415, 6804, 6656, 6422, 1919, 3136, 2096, 3123, 4601, 8195, 7868, 1329, 9660, 4806>>)) >>,
    << N(<<19>>, <<2000>>),
       Val(D(<<0>>, <<0000, 0000, 4587, 1817, 4664, 7520, 9985, 4573, 6398, 9725, 5134, 4749, 9463, 9395, 4711, 7578, 5261, 0087, 7838, 9769, 7596, 5763, 3762, 6131, 5211, 2283, 2494>>)) >>,
    << D(<<25>>, <<9000>>),
       Val(D(<<1771, 0347, 4428>>, <<7772, 7541, 0841, 3513, 9504, 0769, 9620, 7706, 9605, 4745, 0969, 6472, 4192, 0463, 9638, 4068, 6849, 5518, 8266, 5382, 2104, 7337>>)) >>,
    << D(<<26>>, <<>>),
       Val(D(<<1957, 2960, 9428>>, <<8387, 6426, 9776, 3978, 7609, 5342, 7920, 3610, 0950, 6975, 9389, 1652, 7231, 6763, 4413, 4754, 4084, 5790, 7435, 7760, 4105, 1469>>)) >>,
    << D(<<89>>, <<>>),
       Val(D(<<448, 9612, 8191, 7434, 5246, 2842, 4557, 9645, 3162, 7776>>, <<5980, 5863, 7185, 1526, 0493, 1721, 7652, 6871, 5089, 4561, 6888, 8964, 5486, 2398, 2762>>)) >>,
    << D(<<4>>, <<>>),
       Val(D(<<54>>, <<5981, 5003, 3144, 2390, 7811, 0261, 2028, 6087, 8402, 7907, 3703, 8614, 0687, 2582, 6593, 9585, 5366, 2099, 9358, 6948, 1676, 9805, 6194, 4734, 1400>>)) >>,
    << N(<<4>>, <<>>),
       Val(D(<<0>>, <<0183, 1563, 8888, 7341, 8029, 3718, 0212, 7324, 1242, 2119, 1206, 7553, 4755, 9476, 9599, 9274, 3925, 0431, 5981, 1412, 2687, 3694, 9812, 8902, 0517, 3000>>)) >>,
    << N(<<300, 0000>>, <<>>),
       Val(D(<<0>>, <<>>)) >>,
    << D(<<461, 1686, 0184>>, <<2738, 7903>>),
       Exc("Overflow") >>,
    << D(<<0>>, <<0001>>),
       Val(D(<<1>>, <<0001, 0000, 5000, 1666, 7083, 3416, 6680, 5557, 5397, 0734, 1545, 4172, 1783, 8103, 4635, 3909, 7231, 1235, 9727, 8175, 7573, 4304, 7511, 0294, 3930>>)) >>,
    << N(<<0>>, <<0001>>),
       Val(D(<<0>>, <<9999, 0000, 4999, 8333, 3749, 9916, 6680, 5553, 5714, 5337, 2740, 3025, 7934, 0027, 4654, 5988, 7346, 3580, 0401, 3905, 2387, 7237, 1377, 1636, 8284>>)) >>,
    << D(<<3>>, <<>>),
       Val(D(<<20>>, <<0855, 3692, 3187, 6677, 4092, 8529, 6545, 8171, 7896, 9879, 0783, 8554, 1501, 4437, 8934, 2296, 9884, 5878, 0919, 7373, 1204, 4971, 6025, 3017, 7000>>)) >>,
    << N(<<3>>, <<>>),
       Val(D(<<0>>, <<0497, 8706, 8367, 8639, 4297, 9342, 4156, 5006, 1776, 6316, 9959, 2188, 4232, 1556, 7627, 7276, 0606, 0667, 7301, 9955, 0154, 0542, 4423, 6633, 3445, 3000>>)) >>,
    << D(<<0>>, <<0000, 0000, 0000, 0000, 0000, 0001>>),
       Val(D(<<1>>, <<0000, 0000, 0000, 0000, 0000, 0001, 0000, 0000, 0000, 0000, 0000, 0000, 5000, 0000, 0000, 0000, 0000, 0000, 1666, 6666, 6666, 6666, 6666, 6666, 7080>>)) >>,
    << D(<<170, 1411, 8346, 0469>>, <<2317, 3168, 7303, 7158, 8410, 5727>>),
       Exc("Overflow") >>,
    << N(<<0>>, <<0000, 0000, 0000, 0000, 0000, 0001>>),
       Val(D(<<0>>, <<9999, 9999, 9999, 9999, 9999, 9999, 0000, 0000, 0000, 0000, 0000, 0000, 4999, 9999, 9999, 9999, 9999, 9999, 8333, 3333, 3333, 3333, 3333, 3333, 3750>>)) >>,
    << N(<<170, 1411, 8346, 0469>>, <<2317, 3168, 7303, 7158, 8410, 5728>>),
       Val(D(<<0>>, <<>>)) >>,
    << D(<<1>>, <<5707, 9632, 6794, 8966, 1923, 1321>>),
       Val(D(<<4>>, <<8104, 7738, 0965, 3516, 5547, 3032, 3395, 8645, 3037, 6769, 7040, 1215, 8428, 2459, 8966, 6278, 1169, 0442, 9712, 3060, 5310, 0618, 8059, 6844, 1760>>)) >>,
    << D(<<1>>, <<5707, 9632, 6794, 8966, 1923, 1322>>),
       Val(D(<<4>>, <<8104, 7738, 0965, 3516, 5547, 3037, 1500, 6383, 4003, 0286, 2587, 4250, 5876, 4974, 2486, 9806, 0982, 8175, 7855, 9466, 0956, 4201, 2006, 6733, 9920>>)) >>,
    << D(<<3>>, <<1415, 9265, 3589, 7932, 3846, 2643>>),
       Val(D(<<23>>, <<1406, 9263, 2779, 2690, 0572, 9077, 4985, 9537, 8692, 6240, 8195, 8319, 7159, 4979, 4943, 8604, 4044, 2841, 9849, 7244, 1213, 3987, 3442, 5669, 1000>>)) >>,
    << D(<<3>>, <<1415, 9265, 3589, 7932, 3846, 2644>>),
       Val(D(<<23>>, <<1406, 9263, 2779, 2690, 0572, 9100, 6392, 8801, 1471, 8930, 8768, 7408, 7848, 9149, 0026, 1190, 2526, 5704, 3070, 0203, 0966, 7827, 1680, 2518, 1600>>)) >>,
    << N(<<1>>, <<5707, 9632, 6794, 8966, 1923, 1322>>),
       Val(D(<<0>>, <<2078, 7957, 6350, 7619, 0854, 6955, 5557, 3318, 0936, 4016, 9087, 5019, 7955, 3371, 4920, 1188, 3316, 1394, 2213, 0580, 7993, 4732, 9824, 4602, 7715>>)) >>,
    << N(<<3>>, <<1415, 9265, 3589, 7932, 3846, 2643>>),
       Val(D(<<0>>, <<0432, 1391, 8263, 7722, 4977, 4417, 7537, 3473, 7121, 0926, 8485, 2252, 4605, 9109, 2525, 1997, 3786, 2956, 1103, 5836, 1061, 0680, 4353, 4831, 6078, 2000>>)) >>,
    << D(<<6>>, <<2831, 8530, 7179, 5864, 7692, 5287>>),
       Val(D(<<535>>, <<4916, 5552, 4764, 7365, 0304, 9454, 5947, 5164, 9907, 3764, 4858, 8250, 0456, 7630, 5745, 8977, 1943, 7862, 9613, 0215, 1947, 4002, 9840, 6959, 1000>>)) >>,
    << N(<<55>>, <<2600>>),
       Val(D(<<0>>, <<0000, 0000, 0000, 0000, 0000, 0001, 0020, 4431, 8632, 8936, 9779, 5092, 0295, 5936, 2545, 9773, 1661, 0687, 3237, 4262, 3669, 3614, 1386, 5388, 3797, 4564, 9746, 1687, 7022, 6034, 6720>>)) >>,
    << N(<<55>>, <<5000>>),
       Val(D(<<0>>, <<0000, 0000, 0000, 0000, 0000, 0000, 7882, 3597, 9060, 0850, 7933, 0567, 5811, 8047, 6058, 0706, 7206, 6088, 0056, 1444, 1045, 6732, 0125, 4857, 5933, 0833, 1893, 6590, 7228, 6606, 2163>>)) >>,
    << N(<<56>>, <<>>),
       Val(D(<<0>>, <<0000, 0000, 0000, 0000, 0000, 0000, 4780, 8928, 8388, 5469, 0812, 7717, 7042, 3179, 6289, 3889, 5918, 5661, 5410, 7150, 9310, 5307, 8280, 6438, 6882, 3391, 3368, 5462, 0345, 0651, 1071>>)) >>,
    << D(<<33>>, <<4000>>),
       Val(D(<<320, 2105, 9351, 4764>>, <<1146, 0395, 4004, 4251, 3221, 1647, 6936, 1204, 0799, 5556, 7833, 9825, 2154, 4826, 7539, 9904, 9752, 7403, 5222, 8646, 3741>>)) >>,
    << D(<<33>>, <<5000>>),
       Val(D(<<353, 8874, 3561, 2259>>, <<8739, 2924, 8212, 5715, 7330, 5026, 9068, 4192, 4332, 6689, 8681, 0258, 1219, 1685, 6086, 5452, 9435, 4338, 0076, 1275, 0635>>)) >>,
    << D(<<85, 0705, 9173, 0234>>, <<6158, 6584, 3651, 8579, 4205, 2863>>),
       Exc("Overflow") >>,
    << D(<<0>>, <<0000, 0000, 0001>>),
       Val(D(<<1>>, <<0000, 0000, 0001, 0000, 0000, 0000, 5000, 0000, 0000, 1666, 6666, 6666, 7083, 3333, 3333, 3416, 6666, 6666, 6680, 5555, 5555, 5557, 5396, 8253, 9680>>)) >>,
    << N(<<0>>, <<0000, 0000, 0001>>),
       Val(D(<<0>>, <<9999, 9999, 9999, 0000, 0000, 0000, 4999, 9999, 9999, 8333, 3333, 3333, 3749, 9999, 9999, 9916, 6666, 6666, 6680, 5555, 5555, 5553, 5714, 2857, 1429>>)) >>,
    << N(<<55>>, <<>>),
       Val(D(<<0>>, <<0000, 0000, 0000, 0000, 0000, 0001, 2995, 8142, 5007, 5030, 7360, 0713, 4060, 7148, 5530, 2848, 7693, 9994, 9874, 0809, 4002, 6963, 8416, 2758, 5112, 6874, 7700, 5186, 3934, 9890, 7540>>)) >>,
    << N(<<54>>, <<>>),
       Val(D(<<0>>, <<0000, 0000, 0000, 0000, 0000, 0003, 5326, 2857, 2200, 8070, 2973, 5392, 8101, 7720, 8837, 3904, 5658, 2907, 2192, 3961, 8728, 0440, 5005, 7105, 4172, 7557, 7210, 9463, 6687, 5748, 9900>>)) >>,
    << N(<<53>>, <<>>),
       Val(D(<<0>>, <<0000, 0000, 0000, 0000, 0000, 0009, 6026, 8005, 4508, 6760, 3023, 0769, 6700, 0749, 0907, 6279, 3287, 9056, 1138, 3893, 5640, 2183, 3897, 2732, 3631, 4187, 2953, 1993, 3982, 8505, 6190>>)) >>,
    << N(<<52>>, <<>>),
       Val(D(<<0>>, <<0000, 0000, 0000, 0000, 0000, 0026, 1027, 9069, 6677, 0480, 4702, 6953, 1533, 1864, 8093, 1565, 8855, 6577, 3822, 6659, 8781, 1778, 7112, 8080, 6992, 9045, 4815, 9379, 6341, 2668, 9200>>)) >>,
    << N(<<51>>, <<>>),
       Val(D(<<0>>, <<0000, 0000, 0000, 0000, 0000, 0070, 9547, 4162, 2847, 0413, 8983, 2693, 8780, 8073, 4876, 8871, 4545, 5437, 6035, 5576, 1302, 3837, 6104, 0281, 9523, 3840, 1621, 1281, 8744, 1045, 7500>>)) >>,
    << N(<<50>>, <<>>),
       Val(D(<<0>>, <<0000, 0000, 0000, 0000, 0000, 0192, 8749, 8479, 6391, 7783, 0173, 4281, 6527, 0125, 7475, 2832, 6512, 3026, 2910, 8978, 0910, 3820, 5116, 2497, 9646, 5916, 5237, 3378, 7777, 3513, 7000>>)) >>,
    << N(<<49>>, <<>>),
       Val(D(<<0>>, <<0000, 0000, 0000, 0000, 0000, 0524, 2885, 6633, 6346, 3937, 1718, 0530, 2832, 3436, 7159, 3431, 9792, 0270, 4955, 2592, 0731, 7664, 0399, 3998, 2062, 2805, 6046, 3360, 8214, 8834, 1000>>)) >>,
    << N(<<48>>, <<>>),
       Val(D(<<0>>, <<0000, 0000, 0000, 0000, 0000, 1425, 1640, 8274, 0935, 1062, 8532, 1028, 0340, 6022, 6297, 6898, 4864, 4563, 8519, 5742, 0727, 3787, 2224, 0480, 1825, 3877, 0131, 0439, 5639, 8469>>)) >>,
    << N(<<47>>, <<>>),
       Val(D(<<0>>, <<0000, 0000, 0000, 0000, 0000, 3873, 9976, 2868, 7187, 1129, 3147, 7497, 2691, 2782, 9318, 9034, 5454, 7759, 7622, 2701, 6885, 6567, 1652, 6228, 9452, 3273, 3238, 4208, 7283, 0007>>)) >>,
    << N(<<46>>, <<>>),
       Val(D(<<0>>, <<0000, 0000, 0000, 0000, 0001, 0530, 6173, 5755, 3812, 3787, 6332, 4449, 4281, 0880, 5538, 1286, 2829, 9382, 1433, 0710, 5699, 7849, 3854, 8501, 7637, 7668, 0031, 0598, 7410, 9120>>)) >>,
    << N(<<45>>, <<>>),
       Val(D(<<0>>, <<0000, 0000, 0000, 0000, 0002, 8625, 1858, 0549, 3936, 4447, 0121, 6291, 8393, 7206, 8363, 9335, 8135, 1673, 5362, 5302, 5658, 0054, 4181, 8077, 6540, 9674, 3134, 7486, 4893, 6320>>)) >>,
    << N(<<44>>, <<>>),
       Val(D(<<0>>, <<0000, 0000, 0000, 0000, 0007, 7811, 3224, 1133, 7965, 1571, 3316, 7292, 7989, 8191, 8264, 6067, 4935, 1830, 1561, 5786, 5781, 9200, 5854, 6107, 3048, 8321, 1105, 7173, 6179, 8000>>)) >>,
    << N(<<43>>, <<>>),
       Val(D(<<0>>, <<0000, 0000, 0000, 0000, 0021, 1513, 1037, 5910, 8048, 6631, 4010, 0702, 2651, 4701, 9663, 0163, 9505, 2004, 2536, 0081, 2632, 7896, 6211, 7133, 2212, 1028, 6064, 1183, 3860, 4700>>)) >>,
    << N(<<42>>, <<>>),
       Val(D(<<0>>, <<0000, 0000, 0000, 0000, 0057, 4952, 2264, 2935, 5980, 6664, 3808, 8057, 3423, 4249, 4755, 7974, 3237, 4189, 1553, 0191, 8474, 0329, 9148, 0559, 5879, 4364, 4755, 3551, 9234, 3100>>)) >>,
    << N(<<41>>, <<>>),
       Val(D(<<0>>, <<0000, 0000, 0000, 0000, 0156, 2882, 1893, 3498, 8768, 0908, 8299, 5105, 8341, 5502, 0383, 1285, 9194, 3336, 6255, 3629, 6430, 3628, 2320, 4591, 4175, 1007, 8588, 9807, 4516>>)) >>,
    << N(<<40>>, <<>>),
       Val(D(<<0>>, <<0000, 0000, 0000, 0000, 0424, 8354, 2552, 9158, 8995, 3292, 3478, 2858, 6580, 1787, 9565, 5541, 6644, 6288, 0508, 1891, 8926, 0330, 6392, 6914, 6541, 0438, 9228, 5947, 2778, 1000>>)) >>,
    << N(<<39>>, <<>>),
       Val(D(<<0>>, <<0000, 0000, 0000, 0000, 1154, 8224, 1730, 1578, 5986, 2624, 4206, 3323, 8686, 5546, 3410, 7433, 2688, 1199, 9015, 8729, 6150, 9657, 1603, 5920, 8941, 8351, 7394, 4960, 3060>>)) >>,
    << N(<<38>>, <<>>),
       Val(D(<<0>>, <<0000, 0000, 0000, 0000, 3139, 1327, 9204, 8029, 6287, 0896, 4652, 2319, 1964, 9102, 1474, 8025, 6549, 0920, 3368, 0620, 1951, 2233, 5664, 2403, 7757, 2642, 0598, 4743, 3017>>)) >>,
    << N(<<37>>, <<>>),
       Val(D(<<0>>, <<0000, 0000, 0000, 0000, 8533, 0476, 2574, 4065, 7942, 7804, 9822, 9412, 4416, 5796, 9597, 6706, 8708, 2079, 3968, 6596, 3906, 1260, 7937, 4838, 7610, 9165, 5758, 3667, 7959>>)) >>,
    << N(<<36>>, <<>>),
       Val(D(<<0>>, <<0000, 0000, 0000, 0002, 3195, 2283, 0243, 5693, 8831, 2263, 6097, 3808, 0041, 1365, 1607, 7421, 0544, 8865, 8035, 2009, 6510, 0775, 9238, 8560, 9431, 0958, 5695, 6943, 5350>>)) >>,
    << N(<<35>>, <<>>),
       Val(D(<<0>>, <<0000, 0000, 0000, 0006, 3051, 1676, 0146, 9893, 8563, 9021, 1922, 4654, 2761, 3917, 4799, 6301, 2921, 5733, 3827, 9398, 5833, 3122, 6406, 0572, 8177, 6931, 7683, 5163, 7310>>)) >>,
    << N(<<34>>, <<>>),
       Val(D(<<0>>, <<0000, 0000, 0000, 0017, 1390, 8431, 5420, 1296, 6302, 7203, 4257, 6049, 2411, 7811, 6833, 7443, 9152, 3703, 7734, 7525, 0009, 6622, 6790, 0517, 1076, 1126, 1856, 7964, 2700>>)) >>,
    << N(<<33>>, <<>>),
       Val(D(<<0>>, <<0000, 0000, 0000, 0046, 5888, 6145, 1033, 9736, 4184, 2455, 4361, 0168, 4113, 9799, 4694, 1191, 7505, 8161, 4380, 0868, 0119, 1499, 6735, 6151, 2579, 9489, 3744, 6643, 3900>>)) >>,
    << N(<<32>>, <<>>),
       Val(D(<<0>>, <<0000, 0000, 0000, 0126, 6416, 5549, 0941, 7572, 3120, 9041, 5596, 5096, 3821, 3583, 3795, 3096, 5917, 2537, 5758, 7414, 4618, 8758, 1457, 3366, 1996, 3416, 7411, 6767, 2000>>)) >>,
    << N(<<31>>, <<>>),
       Val(D(<<0>>, <<0000, 0000, 0000, 0344, 2477, 1084, 6997, 6458, 3923, 8933, 2851, 5572, 8461, 8351, 2594, 3990, 8190, 5022, 3220, 1282, 9698, 9860, 4215, 8629, 2065, 7957, 2920, 2047, 4000>>)) >>,
    << N(<<30>>, <<>>),
       Val(D(<<0>>, <<0000, 0000, 0000, 0935, 7622, 9688, 4017, 4604, 9158, 3222, 3378, 7067, 4495, 8322, 6889, 3588, 0416, 4133, 1861, 9960, 8428, 3376, 7616, 8736, 6563, 9476, 1987, 0161, 7000>>)) >>,
    << N(<<29>>, <<>>),
       Val(D(<<0>>, <<0000, 0000, 0000, 2543, 6656, 4737, 6922, 9103, 0338, 5614, 8576, 8166, 6602, 8001, 4412, 3121, 5489, 3427, 1248, 1491, 7903, 6345, 2895, 0528, 9865, 5890, 6291, 1153>>)) >>,
    << N(<<28>>, <<>>),
       Val(D(<<0>>, <<0000, 0000, 0000, 6914, 4001, 0694, 0203, 0094, 1258, 4658, 7414, 0927, 1181, 5272, 9634, 6090, 5705, 0161, 8861, 6537, 9436, 2110, 5191, 7006, 1323, 0840, 6543, 4159>>)) >>,
    << N(<<27>>, <<>>),
       Val(D(<<0>>, <<0000, 0000, 0001, 8795, 2881, 6539, 0832, 9475, 8270, 4184, 2219, 2621, 2287, 1724, 9298, 1107, 1340, 2534, 4486, 8079, 3283, 1544, 6706, 6083, 0457, 7624, 9251, 2820>>)) >>,
    << N(<<26>>, <<>>),
       Val(D(<<0>>, <<0000, 0000, 0005, 1090, 8902, 8063, 3247, 1987, 4400, 1934, 7921, 5766, 5940, 7342, 3601, 8301, 8976, 9617, 7891, 9952, 3519, 6546, 1749, 5436, 6600, 8959, 2107, 7980>>)) >>,
    << N(<<25>>, <<>>),
       Val(D(<<0>>, <<0000, 0000, 0013, 8879, 4386, 4964, 0205, 9466, 1763, 7460, 8685, 6910, 3997, 6038, 0205, 0555, 8354, 7799, 9608, 8136, 8138, 4814, 4942, 0618, 1035, 3884, 3157, 5400>>)) >>,
    << N(<<24>>, <<>>),
       Val(D(<<0>>, <<0000, 0000, 0037, 7513, 4544, 2790, 9775, 1644, 9695, 4752, 3406, 7791, 6860, 6482, 5673, 7561, 7965, 3781, 1236, 8719, 8920, 6721, 0760, 2486, 8191, 5482, 5914, 7700>>)) >>,
    << N(<<23>>, <<>>),
       Val(D(<<0>>, <<0000, 0000, 0102, 6187, 9631, 7018, 9030, 3927, 5278, 4061, 2497, 7598, 3384, 3390, 7230, 3347, 9420, 4029, 6467, 1922, 3256, 1241, 4642, 1474, 0761, 7526, 1370, 2000>>)) >>,
    << N(<<22>>, <<>>),
       Val(D(<<0>>, <<0000, 0000, 0278, 9468, 0928, 6892, 4807, 7189, 1303, 0644, 2932, 0769, 3172, 9260, 6848, 3265, 3205, 1117, 3519, 1017, 3369, 9125, 7160, 1942, 8257, 5370, 3808, 5000>>)) >>,
    << N(<<21>>, <<>>),
       Val(D(<<0>>, <<0000, 0000, 0758, 2560, 4279, 1190, 6727, 9417, 4324, 1268, 1264, 4298, 0361, 5188, 9689, 8802, 6298, 7886, 8392, 2899, 6375, 6872, 4726, 8810, 5233, 8285, 8435, 9000>>)) >>,
    << N(<<20>>, <<>>),
       Val(D(<<0>>, <<0000, 0000, 2061, 1536, 2243, 8557, 8279, 6594, 0380, 1558, 2097, 6375, 8072, 7559, 9103, 6929, 7224, 4661, 6291, 6402, 3784, 5593, 5327, 9910, 9279, 0558, 1367>>)) >>,
    << N(<<19>>, <<>>),
       Val(D(<<0>>, <<0000, 0000, 5602, 7964, 3753, 7267, 5400, 1298, 2816, 2064, 6307, 9783, 8737, 4946, 2819, 2716, 0563, 6779, 1150, 6324, 5650, 3472, 2564, 8716, 2849, 4230, 3300>>)) >>,
    << N(<<18>>, <<>>),
       Val(D(<<0>>, <<0000, 0001, 5229, 9797, 4471, 2628, 4361, 3662, 9233, 5174, 3186, 2174, 8433, 3974, 2311, 7283, 2107, 4868, 4549, 3474, 8789, 4120, 2704, 2984, 4247, 9292, 4210>>)) >>,
    << N(<<17>>, <<>>),
       Val(D(<<0>>, <<0000, 0004, 1399, 3771, 8785, 1666, 5965, 1027, 7189, 5528, 0622, 9366, 9437, 4245, 9597, 5569, 9806, 9745, 8667, 1809, 6344, 6207, 9448, 2063, 4044, 9207, 0600>>)) >>,
    << N(<<16>>, <<>>),
       Val(D(<<0>>, <<0000, 0011, 2535, 1747, 1925, 9114, 5137, 7517, 9060, 1271, 9163, 7940, 8006, 5765, 4302, 5777, 5012, 9131, 0870, 4437, 0432, 6333, 1887, 4206, 1162, 0881, 9500>>)) >>,
    << N(<<15>>, <<>>),
       Val(D(<<0>>, <<0000, 0030, 5902, 3205, 0182, 5788, 3714, 7949, 7702, 2896, 3937, 0820, 7808, 1855, 9116, 5592, 6182, 7397, 8584, 3137, 4011, 1581, 5845, 4028, 6257, 0573, 0300>>)) >>,
    << N(<<14>>, <<>>),
       Val(D(<<0>>, <<0000, 0083, 1528, 7191, 0356, 7884, 0639, 8514, 2565, 2622, 9460, 7658, 3649, 8457, 2795, 1595, 2768, 9650, 9315, 8159, 1300, 0919, 7422, 1040, 6436, 3551, 5200>>)) >>,
    << N(<<13>>, <<>>),
       Val(D(<<0>>, <<0000, 0226, 0329, 4069, 8105, 4325, 7852, 7729, 0538, 6894, 6935, 3142, 4227, 0321, 8644, 0353, 6019, 1906, 3973, 3456, 1518, 3977, 7528, 7463, 1869, 4258>>)) >>,
    << N(<<12>>, <<>>),
       Val(D(<<0>>, <<0000, 0614, 4212, 3533, 2820, 9758, 6823, 0817, 8805, 5323, 1122, 3989, 3148, 8825, 2975, 5685, 0587, 6499, 8835, 7780, 9488, 6157, 6742, 3658, 4082, 2787, 1000>>)) >>,
    << N(<<11>>, <<>>),
       Val(D(<<0>>, <<0000, 1670, 1700, 7902, 4565, 9312, 6355, 1736, 0580, 8790, 7793, 8046, 9592, 8712, 4478, 1247, 3711, 3523, 9542, 3126, 8717, 8210, 5291, 6432, 3821, 6280>>)) >>,
    << N(<<10>>, <<>>),
       Val(D(<<0>>, <<0000, 4539, 9929, 7624, 8485, 1535, 5915, 1556, 0550, 6102, 3791, 8088, 8665, 6496, 9259, 0713, 0565, 0999, 4216, 1430, 2281, 6525, 2500, 4545, 9477, 8232>>)) >>,
    << N(<<9>>, <<>>),
       Val(D(<<0>>, <<0001, 2340, 9804, 0866, 7954, 9497, 6366, 9073, 0033, 8260, 7215, 2832, 2889, 3905, 2534, 4820, 4514, 5176, 2845, 5502, 5310, 0320, 8893, 8733, 1705, 4700>>)) >>,
    << N(<<8>>, <<>>),
       Val(D(<<0>>, <<0003, 3546, 2627, 9025, 1183, 8821, 3891, 2578, 0861, 0193, 1090, 0133, 7203, 1936, 0544, 5757, 4791, 1640, 5207, 0865, 7325, 9086, 3151, 3603, 8318, 1960>>)) >>,
    << N(<<7>>, <<>>),
       Val(D(<<0>>, <<0009, 1188, 1965, 5545, 1620, 8003, 1360, 8440, 9282, 6264, 7372, 4527, 4360, 5384, 0816, 1334, 2188, 9479, 8893, 1030, 6529, 3262, 7900, 6464, 9004, 4210>>)) >>,
    << N(<<6>>, <<>>),
       Val(D(<<0>>, <<0024, 7875, 2176, 6663, 5842, 3045, 1674, 3081, 6667, 8915, 0647, 9585, 5339, 4505, 0878, 6240, 0627, 6194, 2282, 9399, 0182, 3747, 2040, 1582, 6678, 1800>>)) >>,
    << N(<<5>>, <<>>),
       Val(D(<<0>>, <<0067, 3794, 6999, 0854, 6709, 6636, 0484, 2314, 8424, 2488, 4958, 5027, 3550, 8543, 0305, 5315, 7268, 3522, 5156, 0406, 2281, 4491, 3884, 4208, 3615, 4800>>)) >>,
    << D(<<5>>, <<>>),
       Val(D(<<148>>, <<4131, 5910, 2576, 6034, 2111, 5580, 0405, 5227, 9623, 4876, 6759, 3878, 9890, 4675, 2845, 1109, 1206, 4820, 9585, 7607, 9688, 4094, 5989, 9021, 1000>>)) >>,
    << D(<<6>>, <<>>),
       Val(D(<<403>>, <<4287, 9349, 2735, 1226, 0838, 7180, 5433, 8827, 9605, 8998, 9735, 7129, 2026, 1396, 7188, 3251, 5118, 0633, 9934, 9830, 5178, 8866, 5121, 2664, 8000>>)) >>,
    << D(<<7>>, <<>>),
       Val(D(<<1096>>, <<6331, 5842, 8458, 5992, 6372, 0238, 2881, 2143, 2442, 2191, 3483, 3613, 1437, 8273, 9240, 7761, 2176, 9331, 2331, 2902, 2478, 5687, 8724, 9844>>)) >>,
    << D(<<8>>, <<>>),
       Val(D(<<2980>>, <<9579, 8704, 1728, 2747, 4359, 2099, 4528, 8867, 3755, 9679, 3913, 2835, 7022, 0896, 3530, 3877, 3072, 5173, 3675, 3015, 7371, 8714, 9001, 8139>>)) >>,
    << D(<<9>>, <<>>),
       Val(D(<<8103>>, <<0839, 2757, 5384, 0077, 0999, 6689, 4327, 5996, 5011, 4760, 8783, 1613, 4625, 0015, 9052, 1782, 7251, 5690, 6248, 2868, 6451, 0924, 0846, 1447>>)) >>,
    << D(<<10>>, <<>>),
       Val(D(<<2, 2026>>, <<4657, 9480, 6716, 5169, 5790, 0645, 2842, 4436, 6353, 5126, 1855, 6781, 0742, 3542, 6355, 2252, 0281, 8570, 7925, 7519, 9120, 9681, 6452, 5900>>)) >>,
    << D(<<11>>, <<>>),
       Val(D(<<5, 9874>>, <<1417, 1519, 7818, 4553, 2648, 5792, 2577, 8161, 4261, 0796, 9574, 0968, 6527, 7151, 4379, 9324, 2111, 5909, 2195, 4237, 2505, 9813, 9349, 2300>>)) >>,
    << D(<<12>>, <<>>),
       Val(D(<<16, 2754>>, <<7914, 1900, 3920, 8080, 0520, 4898, 4867, 8317, 0209, 2844, 7872, 0770, 4435, 5624, 8138, 5967, 7083, 5543, 7387, 2928, 8241, 9094, 3168, 4300>>)) >>,
    << D(<<13>>, <<>>),
       Val(D(<<44, 2413>>, <<3920, 0892, 0503, 3261, 0277, 5949, 0882, 8178, 4391, 3060, 6058, 9715, 5723, 5933, 0709, 0218, 6233, 6438, 2122, 8045, 2273, 1304, 8104, 3800>>)) >>,
    << D(<<14>>, <<>>),
       Val(D(<<120, 2604>>, <<2841, 6477, 6777, 7492, 3677, 0767, 8594, 4941, 2486, 5433, 7610, 2240, 3132, 9063, 3197, 4629, 4708, 3342, 6709, 0364, 1929, 6438, 7639, 7000>>)) >>,
    << D(<<15>>, <<>>),
       Val(D(<<326, 9017>>, <<3724, 7211, 0639, 3018, 5504, 6091, 7213, 1550, 5738, 5438, 2003, 4206, 6295, 6277, 3242, 0213, 3274, 8879, 1329, 6987, 4112, 2892, 5891, 2000>>)) >>,
    << D(<<16>>, <<>>),
       Val(D(<<888, 6110>>, <<5205, 0787, 2636, 7630, 2374, 0781, 4503, 5080, 2719, 8218, 5663, 8839, 7839, 8831, 7048, 9809, 3732, 1478, 1504, 4322, 2106, 6858, 3770, 7000>>)) >>,
    << D(<<17>>, <<>>),
       Val(D(<<2415, 4952>>, <<7535, 7529, 8214, 7754, 3518, 0385, 8238, 7986, 7567, 3527, 2251, 7379, 7514, 3421, 8432, 3268, 5703, 5873, 3287, 7078, 4467, 5373, 3858>>)) >>,
    << D(<<18>>, <<>>),
       Val(D(<<6565, 9969>>, <<1373, 3051, 1138, 7865, 0325, 9060, 0335, 6921, 6355, 7861, 8681, 9491, 4932, 7641, 7998, 5717, 3173, 9128, 5591, 4672, 2553, 8337, 0910>>)) >>,
    << D(<<19>>, <<>>),
       Val(D(<<1, 7848, 2300>>, <<9631, 8726, 0844, 9100, 3378, 8722, 7038, 8361, 9733, 1651, 6642, 6195, 3832, 0157, 5692, 7522, 3906, 0170, 0440, 5135, 0751, 6373, 5220>>)) >>,
    << D(<<20>>, <<>>),
       Val(D(<<4, 8516, 5195>>, <<4097, 9027, 7969, 1068, 3054, 1540, 5586, 8463, 8988, 9448, 4725, 4353, 6108, 0031, 5977, 9961, 4270, 9740, 1659, 7985, 0652, 7473, 4940>>)) >>,
    << D(<<21>>, <<>>),
       Val(D(<<13, 1881, 5734>>, <<4832, 1469, 7209, 9988, 8374, 5302, 7850, 9144, 4437, 3804, 7574, 9065, 9858, 4581, 5069, 2686, 1385, 4287, 2513, 4352, 4758, 6757, 5800>>)) >>,
    << D(<<22>>, <<>>),
       Val(D(<<35, 8491, 2846>>, <<1315, 9156, 1681, 1599, 4597, 8420, 6892, 2269, 3065, 0372, 7493, 4931, 9718, 4155, 5786, 9193, 6097, 5329, 0019, 7595, 7054, 0000, 9300>>)) >>,
    << D(<<23>>, <<>>),
       Val(D(<<97, 4480, 3446>>, <<2489, 0260, 0034, 6326, 8482, 2975, 2776, 4938, 7764, 0360, 0697, 6355, 9032, 2780, 1470, 1697, 0638, 1193, 1947, 9028, 0416, 1643, 6000>>)) >>,
    << D(<<24>>, <<>>),
       Val(D(<<264, 8912, 2129>>, <<8434, 7229, 4139, 1621, 5281, 1882, 3408, 7019, 8619, 2485, 3057, 6534, 2065, 1501, 9619, 8499, 2932, 1725, 7426, 0699, 9559, 5322, 8000>>)) >>,
    << D(<<25>>, <<>>),
       Val(D(<<720, 0489, 9337>>, <<3858, 7252, 4161, 3514, 6612, 6157, 9152, 2353, 3813, 3952, 7873, 6221, 3864, 4723, 2059, 3107, 7825, 6974, 5000, 3256, 5425, 8093, 2000>>)) >>,
    << D(<<27>>, <<>>),
       Val(D(<<5320, 4824, 0601>>, <<7986, 1668, 3747, 3043, 4117, 7441, 6592, 5580, 4283, 6888, 0883, 7731, 1505, 3596, 9409, 9669, 5319, 7164, 6115, 5382, 8831, 3522>>)) >>,
    << D(<<28>>, <<>>),
       Val(D(<<1, 4462, 5706, 4291>>, <<4751, 7367, 7047, 4229, 9692, 8856, 9020, 6232, 9509, 9228, 7516, 5479, 0521, 1048, 8574, 2402, 3010, 4803, 9401, 4526, 6413, 3450>>)) >>,
    << D(<<29>>, <<>>),
       Val(D(<<3, 9313, 3429, 7144>>, <<0420, 7438, 8620, 5808, 4352, 7685, 7969, 4233, 3443, 9021, 8564, 3090, 8855, 4199, 7881, 9482, 2882, 4965, 9879, 7196, 2268, 9160>>)) >>,
    << D(<<30>>, <<>>),
       Val(D(<<10, 6864, 7458, 1524>>, <<4621, 4699, 0468, 6507, 4140, 1650, 0244, 9500, 5473, 0549, 9022, 2911, 4921, 0845, 2944, 7871, 3153, 2538, 0576, 8680, 1525, 2100>>)) >>,
    << D(<<31>>, <<>>),
       Val(D(<<29, 0488, 4966, 5247>>, <<4252, 3108, 5682, 1116, 7982, 5666, 7646, 9509, 0296, 9802, 4934, 0835, 6474, 5563, 5037, 2880, 9851, 1817, 6095, 6345, 1825, 1900>>)) >>,
    << D(<<32>>, <<>>),
       Val(D(<<78, 9629, 6018, 2680>>, <<6951, 6097, 8022, 6351, 0822, 4219, 9561, 9511, 5352, 3306, 5508, 0020, 5987, 5430, 7854, 0198, 8897, 9038, 9126, 0467, 4262, 7100>>)) >>,
    << D(<<33>>, <<>>),
       Val(D(<<214, 6435, 7978, 5916>>, <<0646, 2429, 7761, 5312, 6088, 0369, 2259, 0605, 4797, 8972, 5918, 5412, 6265, 0031, 3069, 8586, 8251, 1155, 2375, 3864, 3588, 2000>>)) >>
>>

\* Decimal.__pow__ at prec 100
DecimalPow == <<
    << D(<<0>>, <<>>), D(<<0>>, <<>>),
       Exc("InvalidOperation") >>,
    << D(<<0>>, <<>>), N(<<1>>, <<>>),
       Val(Infinity) >>,
    << D(<<0>>, <<>>), D(<<1>>, <<>>),
       Val(D(<<0>>, <<>>)) >>,
    << D(<<0>>, <<>>), D(<<0>>, <<5000>>),
       Val(D(<<0>>, <<>>)) >>,
    << D(<<0>>, <<>>), N(<<0>>, <<5000>>),
       Val(Infinity) >>,
    << D(<<0>>, <<>>), D(<<2>>, <<>>),
       Val(D(<<0>>, <<>>)) >>,
    << D(<<0>>, <<>>), D(<<8>>, <<>>),
       Val(D(<<0>>, <<>>)) >>,
    << D(<<0>>, <<>>), N(<<8>>, <<>>),
       Val(Infinity) >>,
    << D(<<0>>, <<>>), D(<<15>>, <<>>),
       Val(D(<<0>>, <<>>)) >>,
    << D(<<0>>, <<>>), D(<<922, 3372, 0368>>, <<5477, 5807>>),
       Val(D(<<0>>, <<>>)) >>,
    << D(<<0>>, <<>>), N(<<922, 3372, 0368>>, <<5477, 5808>>),
       Val(Infinity) >>,
    << D(<<0>>, <<>>), D(<<0>>, <<0000, 0001>>),
       Val(D(<<0>>, <<>>)) >>,
    << D(<<0>>, <<>>), D(<<2>>, <<7000>>),
       Val(D(<<0>>, <<>>)) >>,
    << D(<<0>>, <<0010>>), D(<<0>>, <<>>),
       Val(D(<<1>>, <<>>)) >>,
    << D(<<0>>, <<0010>>), N(<<1>>, <<>>),
       Val(D(<<1000>>, <<>>)) >>,
    << D(<<0>>, <<0010>>), D(<<1>>, <<>>),
       Val(D(<<0>>, <<0010>>)) >>,
    << D(<<0>>, <<0010>>), D(<<0>>, <<5000>>),
       Val(D(<<0>>, <<0316, 2277, 6601, 6837, 9331, 9988, 9354, 4432, 7185, 3371, 9555, 1393, 2521, 6826, 8575, 0485, 2792, 5944, 3863, 9238, 2213, 4424, 8108, 3793, 0029, 5000>>)) >>,
    << D(<<0>>, <<0010>>), N(<<0>>, <<5000>>),
       Val(D(<<31>>, <<6227, 7660, 1683, 7933, 1998, 8935, 4443, 2718, 5337, 1955, 5139, 3252, 1682, 6857, 5048, 5279, 2594, 4386, 3923, 8221, 3442, 4810, 8379, 3002, 9500>>)) >>,
    << D(<<0>>, <<0010>>), D(<<2>>, <<>>),
       Val(D(<<0>>, <<0000, 0100>>)) >>,
    << D(<<0>>, <<0010>>), D(<<8>>, <<>>),
       Val(D(<<0>>, <<0000, 0000, 0000, 0000, 0000, 0001>>)) >>,
    << D(<<0>>, <<0010>>), N(<<8>>, <<>>),
       Val(D(<<1, 0000, 0000, 0000, 0000, 0000, 0000>>, <<>>)) >>,
    << D(<<0>>, <<0010>>), D(<<15>>, <<>>),
       Val(D(<<0>>, <<0000, 0000, 0000, 0000, 0000, 0000, 0000, 0000, 0000, 0000, 0000, 1000>>)) >>,
    << D(<<0>>, <<0010>>), D(<<922, 3372, 0368>>, <<5477, 5807>>),
       Val(D(<<0>>, <<>>)) >>,
    << D(<<0>>, <<0010>>), N(<<922, 3372, 0368>>, <<5477, 5808>>),
       Exc("Overflow") >>,
    << D(<<0>>, <<0010>>), D(<<0>>, <<0000, 0001>>),
       Val(D(<<0>>, <<9999, 9993, 0922, 4495, 9603, 2724, 2584, 1831, 7905, 0191, 4613, 3724, 3620, 1971, 7066, 2050, 4525, 6223, 8112, 8163, 7207, 9895, 2345, 0206, 6569>>)) >>,
    << D(<<0>>, <<0010>>), D(<<2>>, <<7000>>),
       Val(D(<<0>>, <<0000, 0000, 7943, 2823, 4724, 2815, 0206, 5918, 2828, 3638, 7932, 5889, 6063, 1755, 4843, 3209, 2323, 9293, 1695, 5697, 1914, 8753, 7497, 0952, 5184, 7190, 2781>>)) >>,
    << D(<<0>>, <<5000>>), D(<<0>>, <<>>),
       Val(D(<<1>>, <<>>)) >>,
    << D(<<0>>, <<5000>>), N(<<1>>, <<>>),
       Val(D(<<2>>, <<>>)) >>,
    << D(<<0>>, <<5000>>), D(<<1>>, <<>>),
       Val(D(<<0>>, <<5000>>)) >>,
    << D(<<0>>, <<5000>>), D(<<0>>, <<5000>>),
       Val(D(<<0>>, <<7071, 0678, 1186, 5475, 2440, 0844, 3621, 0484, 9039, 2848, 3593, 7688, 4740, 3658, 8339, 8689, 9536, 6239, 2310, 5351, 9425, 1937, 6716, 3820, 7864>>)) >>,
    << D(<<0>>, <<5000>>), N(<<0>>, <<5000>>),
       Val(D(<<1>>, <<4142, 1356, 2373, 0950, 4880, 1688, 7242, 0969, 8078, 5696, 7187, 5376, 9480, 7317, 6679, 7379, 9073, 2478, 4621, 0703, 8850, 3875, 3432, 7641, 5730>>)) >>,
    << D(<<0>>, <<5000>>), D(<<2>>, <<>>),
       Val(D(<<0>>, <<2500>>)) >>,
    << D(<<0>>, <<5000>>), D(<<8>>, <<>>),
       Val(D(<<0>>, <<0039, 0625>>)) >>,
    << D(<<0>>, <<5000>>), N(<<8>>, <<>>),
       Val(D(<<256>>, <<>>)) >>,
    << D(<<0>>, <<5000>>), D(<<15>>, <<>>),
       Val(D(<<0>>, <<0000, 3051, 7578, 1250>>)) >>,
    << D(<<0>>, <<5000>>), D(<<922, 3372, 0368>>, <<5477, 5807>>),
       Val(D(<<0>>, <<>>)) >>,
    << D(<<0>>, <<5000>>), N(<<922, 3372, 0368>>, <<5477, 5808>>),
       Exc("Overflow") >>,
    << D(<<0>>, <<5000>>), D(<<0>>, <<0000, 0001>>),
       Val(D(<<0>>, <<9999, 9999, 3068, 5282, 1842, 3197, 5462, 3364, 1450, 1330, 7162, 5385, 1737, 8384, 4922, 9629, 2126, 1578, 9056, 4131, 4681, 0031, 2927, 0243, 9457>>)) >>,
    << D(<<0>>, <<5000>>), D(<<2>>, <<7000>>),
       Val(D(<<0>>, <<1538, 9305, 1668, 1145, 3556, 2424, 1336, 4596, 7888, 7345, 1722, 0137, 6022, 2429, 2133, 1922, 8076, 2589, 9649, 1980, 7300, 5028, 4370, 6361, 7677>>)) >>,
    << D(<<2>>, <<>>), D(<<0>>, <<>>),
       Val(D(<<1>>, <<>>)) >>,
    << D(<<2>>, <<>>), N(<<1>>, <<>>),
       Val(D(<<0>>, <<5000>>)) >>,
    << D(<<2>>, <<>>), D(<<1>>, <<>>),
       Val(D(<<2>>, <<>>)) >>,
    << D(<<2>>, <<>>), D(<<0>>, <<5000>>),
       Val(D(<<1>>, <<4142, 1356, 2373, 0950, 4880, 1688, 7242, 0969, 8078, 5696, 7187, 5376, 9480, 7317, 6679, 7379, 9073, 2478, 4621, 0703, 8850, 3875, 3432, 7641, 5730>>)) >>,
    << D(<<2>>, <<>>), N(<<0>>, <<5000>>),
       Val(D(<<0>>, <<7071, 0678, 1186, 5475, 2440, 0844, 3621, 0484, 9039, 2848, 3593, 7688, 4740, 3658, 8339, 8689, 9536, 6239, 2310, 5351, 9425, 1937, 6716, 3820, 7864>>)) >>,
    << D(<<2>>, <<>>), D(<<2>>, <<>>),
       Val(D(<<4>>, <<>>)) >>,
    << D(<<2>>, <<>>), D(<<8>>, <<>>),
       Val(D(<<256>>, <<>>)) >>,
    << D(<<2>>, <<>>), N(<<8>>, <<>>),
       Val(D(<<0>>, <<0039, 0625>>)) >>,
    << D(<<2>>, <<>>), D(<<15>>, <<>>),
       Val(D(<<3, 2768>>, <<>>)) >>,
    << D(<<2>>, <<>>), D(<<922, 3372, 0368>>, <<5477, 5807>>),
       Exc("Overflow") >>,
    << D(<<2>>, <<>>), N(<<922, 3372, 0368>>, <<5477, 5808>>),
       Val(D(<<0>>, <<>>)) >>,
    << D(<<2>>, <<>>), D(<<0>>, <<0000, 0001>>),
       Val(D(<<1>>, <<0000, 0000, 6931, 4718, 2962, 2103, 8455, 8650, 1208, 9397, 6315, 9850, 8669, 3686, 2411, 5373, 4280, 6059, 4293, 6497, 0861, 0373, 8330, 3349, 2460>>)) >>,
    << D(<<2>>, <<>>), D(<<2>>, <<7000>>),
       Val(D(<<6>>, <<4980, 1917, 0849, 8841, 8087, 7675, 0622, 0225, 3210, 2816, 3979, 5457, 2755, 4025, 9949, 7044, 3376, 5947, 4801, 1908, 4997, 8890, 3852, 8230, 6200>>)) >>,
    << D(<<1>>, <<>>), D(<<0>>, <<>>),
       Val(D(<<1>>, <<>>)) >>,
    << D(<<1>>, <<>>), N(<<1>>, <<>>),
       Val(D(<<1>>, <<>>)) >>,
    << D(<<1>>, <<>>), D(<<1>>, <<>>),
       Val(D(<<1>>, <<>>)) >>,
    << D(<<1>>, <<>>), D(<<0>>, <<5000>>),
       Val(D(<<1>>, <<>>)) >>,
    << D(<<1>>, <<>>), N(<<0>>, <<5000>>),
       Val(D(<<1>>, <<>>)) >>,
    << D(<<1>>, <<>>), D(<<2>>, <<>>),
       Val(D(<<1>>, <<>>)) >>,
    << D(<<1>>, <<>>), D(<<8>>, <<>>),
       Val(D(<<1>>, <<>>)) >>,
    << D(<<1>>, <<>>), N(<<8>>, <<>>),
       Val(D(<<1>>, <<>>)) >>,
    << D(<<1>>, <<>>), D(<<15>>, <<>>),
       Val(D(<<1>>, <<>>)) >>,
    << D(<<1>>, <<>>), D(<<922, 3372, 0368>>, <<5477, 5807>>),
       Val(D(<<1>>, <<>>)) >>,
    << D(<<1>>, <<>>), N(<<922, 3372, 0368>>, <<5477, 5808>>),
       Val(D(<<1>>, <<>>)) >>,
    << D(<<1>>, <<>>), D(<<0>>, <<0000, 0001>>),
       Val(D(<<1>>, <<>>)) >>,
    << D(<<1>>, <<>>), D(<<2>>, <<7000>>),
       Val(D(<<1>>, <<>>)) >>,
    << D(<<10>>, <<>>), D(<<0>>, <<>>),
       Val(D(<<1>>, <<>>)) >>,
    << D(<<10>>, <<>>), N(<<1>>, <<>>),
       Val(D(<<0>>, <<1000>>)) >>,
    << D(<<10>>, <<>>), D(<<1>>, <<>>),
       Val(D(<<10>>, <<>>)) >>,
    << D(<<10>>, <<>>), D(<<0>>, <<5000>>),
       Val(D(<<3>>, <<1622, 7766, 0168, 3793, 3199, 8893, 5444, 3271, 8533, 7195, 5513, 9325, 2168, 2685, 7504, 8527, 9259, 4438, 6392, 3822, 1344, 2481, 0837, 9300, 2950>>)) >>,
    << D(<<10>>, <<>>), N(<<0>>, <<5000>>),
       Val(D(<<0>>, <<3162, 2776, 6016, 8379, 3319, 9889, 3544, 4327, 1853, 3719, 5551, 3932, 5216, 8268, 5750, 4852, 7925, 9443, 8639, 2382, 2134, 4248, 1083, 7930, 0295>>)) >>,
    << D(<<10>>, <<>>), D(<<2>>, <<>>),
       Val(D(<<100>>, <<>>)) >>,
    << D(<<10>>, <<>>), D(<<8>>, <<>>),
       Val(D(<<1, 0000, 0000>>, <<>>)) >>,
    << D(<<10>>, <<>>), N(<<8>>, <<>>),
       Val(D(<<0>>, <<0000, 0001>>)) >>,
    << D(<<10>>, <<>>), D(<<15>>, <<>>),
       Val(D(<<1000, 0000, 0000, 0000>>, <<>>)) >>,
    << D(<<10>>, <<>>), D(<<922, 3372, 0368>>, <<5477, 5807>>),
       Exc("Overflow") >>,
    << D(<<10>>, <<>>), N(<<922, 3372, 0368>>, <<5477, 5808>>),
       Val(D(<<0>>, <<>>)) >>,
    << D(<<10>>, <<>>), D(<<0>>, <<0000, 0001>>),
       Val(D(<<1>>, <<0000, 0002, 3025, 8511, 9503, 5364, 3987, 7841, 9080, 9547, 0139, 7665, 8495, 1653, 7322, 0154, 5717, 4988, 6933, 5937, 2340, 4109, 0577, 3348, 8830>>)) >>,
    << D(<<10>>, <<>>), D(<<2>>, <<7000>>),
       Val(D(<<501>>, <<1872, 3362, 7272, 2850, 0155, 4186, 8849, 4576, 8060, 4719, 8983, 2819, 2639, 2969, 7455, 8890, 1125, 5688, 8306, 8895, 9770, 5395, 4814, 2070, 5000>>)) >>,
    << D(<<1844, 6744, 0737>>, <<0955, 1615>>), D(<<0>>, <<>>),
       Val(D(<<1>>, <<>>)) >>,
    << D(<<1844, 6744, 0737>>, <<0955, 1615>>), N(<<1>>, <<>>),
       Val(D(<<0>>, <<0000, 0000, 0005, 4210, 1086, 2427, 5221, 7033, 1137, 5920, 5528, 0434, 1370, 2130, 3416, 8859, 4222, 5818, 8100, 2620, 8442, 8956, 8442, 4071, 3574, 6466, 4806, 3480>>)) >>,
    << D(<<1844, 6744, 0737>>, <<0955, 1615>>), D(<<1>>, <<>>),
       Val(D(<<1844, 6744, 0737>>, <<0955, 1615>>)) >>,
    << D(<<1844, 6744, 0737>>, <<0955, 1615>>), D(<<0>>, <<5000>>),
       Val(D(<<42, 9496>>, <<7295, 9999, 9999, 9883, 5846, 7817, 3065, 1855, 4529, 7278, 1895, 5797, 6389, 1337, 7863, 4072, 9524, 1031, 3889, 6376, 5491, 8006, 4195, 4300>>)) >>,
    << D(<<1844, 6744, 0737>>, <<0955, 1615>>), N(<<0>>, <<5000>>),
       Val(D(<<0>>, <<0000, 0232, 8306, 4365, 3869, 6289, 1256, 0887, 2417, 6809, 4443, 5504, 1393, 4431, 1406, 1942, 6734, 2509, 3962, 4490, 3594, 5183, 6963, 0343, 9385, 7593, 2000>>)) >>,
    << D(<<1844, 6744, 0737>>, <<0955, 1615>>), D(<<2>>, <<>>),
       Val(D(<<340, 2823, 6692, 0938, 4634, 2648>>, <<1119, 2843, 4910, 8225>>)) >>,
    << D(<<1844, 6744, 0737>>, <<0955, 1615>>), D(<<8>>, <<>>),
       Val(D(<<134, 0780, 7929, 9425, 9709, 3759, 3152, 0384, 0991, 0041, 8803, 1530, 9874, 0252, 0718, 6284, 0701, 5669, 7697, 5784, 2313, 6309, 0971>>, <<5223, 8192, 5000>>)) >>,
    << D(<<1844, 6744, 0737>>, <<0955, 1615>>), N(<<8>>, <<>>),
       Val(D(<<0>>, <<0000, 0000, 0000, 0000, 0000, 0000, 0000, 0000, 0000, 0000, 0000, 0000, 0000, 0000, 0000, 0000, 0000, 0000, 0000, 0000, 0000, 0000, 0074, 5834, 0731, 2002, 0674, 6525, 5050, 0502, 4689, 7634, 7000, 2526, 9937, 7281, 4999, 7288, 5675, 9837, 4645, 1080, 4311, 2051, 9683, 1178, 8508, 7200>>)) >>,
    << D(<<1844, 6744, 0737>>, <<0955, 1615>>), D(<<15>>, <<>>),
       Val(D(<<9, 7453, 1401, 1399, 9990, 7242, 8964, 4208, 4020, 9618, 5982, 1499, 5287, 1293, 5484, 2773, 1477, 1016, 1334, 9948, 9378, 0982, 8028, 5786, 5048, 6580, 0000, 0000, 0000, 0000, 0000, 0000, 0000, 0000, 0000, 0000, 0000, 0000, 0000, 0000, 0000, 0000, 0000>>, <<>>)) >>,
    << D(<<1844, 6744, 0737>>, <<0955, 1615>>), D(<<922, 3372, 0368>>, <<5477, 5807>>),
       Exc("Overflow") >>,
    << D(<<1844, 6744, 0737>>, <<0955, 1615>>), N(<<922, 3372, 0368>>, <<5477, 5808>>),
       Val(D(<<0>>, <<>>)) >>,
    << D(<<1844, 6744, 0737>>, <<0955, 1615>>), D(<<0>>, <<0000, 0001>>),
       Val(D(<<1>>, <<0000, 0025, 9407, 4217, 6494, 0757, 9735, 0189, 0296, 0390, 6929, 2412, 0135, 6048, 7309, 7124, 9459, 2021, 1189, 9789, 7182, 2418, 3331, 3300, 2230>>)) >>,
    << D(<<1844, 6744, 0737>>, <<0955, 1615>>), D(<<2>>, <<7000>>),
       Val(D(<<261, 8082, 0357, 3430, 2925, 1543, 9178, 4028>>, <<9150, 5681, 0293, 6588, 9639, 7926, 4825, 0980, 6056, 7346, 1034, 4525, 6897, 8226, 0441, 5356, 7051, 8000>>)) >>,
    << D(<<0>>, <<7000>>), D(<<0>>, <<>>),
       Val(D(<<1>>, <<>>)) >>,
    << D(<<0>>, <<7000>>), N(<<1>>, <<>>),
       Val(D(<<1>>, <<4285, 7142, 8571, 4285, 7142, 8571, 4285, 7142, 8571, 4285, 7142, 8571, 4285, 7142, 8571, 4285, 7142, 8571, 4285, 7142, 8571, 4285, 7142, 8571, 4290>>)) >>,
    << D(<<0>>, <<7000>>), D(<<1>>, <<>>),
       Val(D(<<0>>, <<7000>>)) >>,
    << D(<<0>>, <<7000>>), D(<<0>>, <<5000>>),
       Val(D(<<0>>, <<8366, 6002, 6534, 0755, 4797, 8172, 0257, 8518, 7489, 3928, 1536, 9298, 6721, 9981, 1191, 5430, 8041, 8772, 5943, 1700, 9830, 8147, 1196, 4951, 5362>>)) >>,
    << D(<<0>>, <<7000>>), N(<<0>>, <<5000>>),
       Val(D(<<1>>, <<1952, 2860, 9334, 3936, 3996, 8817, 1796, 9312, 4984, 8468, 7909, 8998, 1031, 4258, 7416, 4901, 1488, 3960, 8490, 2429, 9758, 3067, 3137, 8502, 1950>>)) >>,
    << D(<<0>>, <<7000>>), D(<<2>>, <<>>),
       Val(D(<<0>>, <<4900>>)) >>,
    << D(<<0>>, <<7000>>), D(<<8>>, <<>>),
       Val(D(<<0>>, <<0576, 4801>>)) >>,
    << D(<<0>>, <<7000>>), N(<<8>>, <<>>),
       Val(D(<<17>>, <<3466, 5255, 5743, 0343, 2156, 6347, 2164, 9541, 7621, 5276, 1214, 1338, 4434, 2588, 7554, 4880, 0400, 9158, 3386, 8333, 0092, 4004, 1416, 8676, 4200>>)) >>,
    << D(<<0>>, <<7000>>), D(<<15>>, <<>>),
       Val(D(<<0>>, <<0047, 4756, 1509, 9430>>)) >>,
    << D(<<0>>, <<7000>>), D(<<922, 3372, 0368>>, <<5477, 5807>>),
       Val(D(<<0>>, <<>>)) >>,
    << D(<<0>>, <<7000>>), N(<<922, 3372, 0368>>, <<5477, 5808>>),
       Exc("Overflow") >>,
    << D(<<0>>, <<7000>>), D(<<0>>, <<0000, 0001>>),
       Val(D(<<0>>, <<9999, 9999, 6433, 2505, 6697, 3526, 9849, 9598, 6842, 6174, 5874, 1283, 5609, 6172, 4295, 6290, 1214, 3148, 7377, 8913, 0661, 2759, 6413, 6422, 0560>>)) >>,
    << D(<<0>>, <<7000>>), D(<<2>>, <<7000>>),
       Val(D(<<0>>, <<3817, 3739, 7208, 5200, 5605, 6205, 2520, 8591, 7100, 4338, 5894, 7970, 1951, 9768, 3626, 1298, 0726, 2399, 6032, 0328, 8168, 6903, 1968, 1804, 2989>>)) >>,
    << D(<<0>>, <<>>), D(<<170, 1411, 8346, 0469>>, <<2317, 3168, 7303, 7158, 8410, 5727>>),
       Val(D(<<0>>, <<>>)) >>,
    << D(<<0>>, <<>>), N(<<170, 1411, 8346, 0469>>, <<2317, 3168, 7303, 7158, 8410, 5728>>),
       Val(Infinity) >>,
    << D(<<0>>, <<>>), D(<<0>>, <<0000, 0000, 0000, 0000, 0000, 0001>>),
       Val(D(<<0>>, <<>>)) >>,
    << D(<<0>>, <<>>), D(<<8>>, <<0300>>),
       Val(D(<<0>>, <<>>)) >>,
    << D(<<0>>, <<0010>>), D(<<170, 1411, 8346, 0469>>, <<2317, 3168, 7303, 7158, 8410, 5727>>),
       Val(D(<<0>>, <<>>)) >>,
    << D(<<0>>, <<0010>>), N(<<170, 1411, 8346, 0469>>, <<2317, 3168, 7303, 7158, 8410, 5728>>),
       Exc("Overflow") >>,
    << D(<<0>>, <<0010>>), D(<<0>>, <<0000, 0000, 0000, 0000, 0000, 0001>>),
       Val(D(<<0>>, <<9999, 9999, 9999, 9999, 9999, 9993, 0922, 4472, 1017, 8629, 4794, 6049, 4944, 8840, 4529, 9877, 4306, 1557, 4934, 2298, 7704, 6283, 0820, 1601, 3072>>)) >>,
    << D(<<0>>, <<0010>>), D(<<8>>, <<0300>>),
       Val(D(<<0>>, <<0000, 0000, 0000, 0000, 0000, 0000, 8128, 3051, 6164, 0992, 4654, 1278, 7977, 3132, 9801, 8756, 8851, 1000, 6245, 4636, 6023, 2512, 1954, 4847, 2249, 1710, 4081, 0138, 5355, 5081, 5829>>)) >>,
    << D(<<0>>, <<5000>>), D(<<170, 1411, 8346, 0469>>, <<2317, 3168, 7303, 7158, 8410, 5727>>),
       Val(D(<<0>>, <<>>)) >>,
    << D(<<0>>, <<5000>>), N(<<170, 1411, 8346, 0469>>, <<2317, 3168, 7303, 7158, 8410, 5728>>),
       Exc("Overflow") >>,
    << D(<<0>>, <<5000>>), D(<<0>>, <<0000, 0000, 0000, 0000, 0000, 0001>>),
       Val(D(<<0>>, <<9999, 9999, 9999, 9999, 9999, 9999, 3068, 5281, 9440, 0546, 9058, 2768, 1187, 6833, 0391, 0252, 1219, 9190, 9524, 0510, 3141, 0342, 0312, 9033, 0489>>)) >>,
    << D(<<0>>, <<5000>>), D(<<8>>, <<0300>>),
       Val(D(<<0>>, <<0038, 2586, 0537, 4489, 3309, 0169, 9930, 9417, 7409, 0006, 6225, 7293, 0303, 9458, 1294, 7810, 7731, 7945, 2424, 0500, 3853, 4158, 4892, 6104, 6768, 9300>>)) >>,
    << D(<<2>>, <<>>), D(<<170, 1411, 8346, 0469>>, <<2317, 3168, 7303, 7158, 8410, 5727>>),
       Exc("Overflow") >>,
    << D(<<2>>, <<>>), N(<<170, 1411, 8346, 0469>>, <<2317, 3168, 7303, 7158, 8410, 5728>>),
       Val(D(<<0>>, <<>>)) >>,
    << D(<<2>>, <<>>), D(<<0>>, <<0000, 0000, 0000, 0000, 0000, 0001>>),
       Val(D(<<1>>, <<0000, 0000, 0000, 0000, 0000, 0000, 6931, 4718, 0559, 9453, 0941, 7232, 3616, 8468, 3527, 1762, 1246, 7911, 5739, 2156, 1830, 6963, 4982, 2561, 5160>>)) >>,
    << D(<<2>>, <<>>), D(<<8>>, <<0300>>),
       Val(D(<<261>>, <<3791, 0418, 1041, 4719, 3960, 8364, 7444, 6447, 9626, 5185, 1603, 8069, 8331, 8921, 8521, 0558, 2338, 1999, 1437, 0758, 9277, 0947, 1838, 2856, 5000>>)) >>,
    << D(<<1>>, <<>>), D(<<170, 1411, 8346, 0469>>, <<2317, 3168, 7303, 7158, 8410, 5727>>),
       Val(D(<<1>>, <<>>)) >>,
    << D(<<1>>, <<>>), N(<<170, 1411, 8346, 0469>>, <<2317, 3168, 7303, 7158, 8410, 5728>>),
       Val(D(<<1>>, <<>>)) >>,
    << D(<<1>>, <<>>), D(<<0>>, <<0000, 0000, 0000, 0000, 0000, 0001>>),
       Val(D(<<1>>, <<>>)) >>,
    << D(<<1>>, <<>>), D(<<8>>, <<0300>>),
       Val(D(<<1>>, <<>>)) >>,
    << D(<<10>>, <<>>), D(<<170, 1411, 8346, 0469>>, <<2317, 3168, 7303, 7158, 8410, 5727>>),
       Exc("Overflow") >>,
    << D(<<10>>, <<>>), N(<<170, 1411, 8346, 0469>>, <<2317, 3168, 7303, 7158, 8410, 5728>>),
       Val(D(<<0>>, <<>>)) >>,
    << D(<<10>>, <<>>), D(<<0>>, <<0000, 0000, 0000, 0000, 0000, 0001>>),
       Val(D(<<1>>, <<0000, 0000, 0000, 0000, 0000, 0002, 3025, 8509, 2994, 0456, 8401, 7994, 1056, 3341, 9446, 8001, 0676, 9464, 0019, 5163, 4467, 1758, 8944, 3168, 4450>>)) >>,
    << D(<<10>>, <<>>), D(<<8>>, <<0300>>),
       Val(D(<<1, 0715, 1930>>, <<5237, 6064, 1740, 8302, 2246, 9450, 8733, 9158, 6596, 3342, 2172, 7078, 9450, 1914, 1367, 7160, 7653, 8699, 4072, 0737, 6026, 4233, 8190>>)) >>,
    << D(<<340, 2823, 6692, 0938>>, <<4634, 6337, 4607, 4317, 6821, 1455>>), D(<<0>>, <<>>),
       Val(D(<<1>>, <<>>)) >>,
    << D(<<340, 2823, 6692, 0938>>, <<4634, 6337, 4607, 4317, 6821, 1455>>), N(<<1>>, <<>>),
       Val(D(<<0>>, <<0000, 0000, 0000, 0029, 3873, 5877, 0557, 1876, 9921, 8413, 4305, 5614, 1945, 5530, 0060, 4853, 1324, 8397, 2656, 1755, 8843, 5482, 0795, 9311, 9117, 1568, 7877, 2564, 4400>>)) >>,
    << D(<<340, 2823, 6692, 0938>>, <<4634, 6337, 4607, 4317, 6821, 1455>>), D(<<1>>, <<>>),
       Val(D(<<340, 2823, 6692, 0938>>, <<4634, 6337, 4607, 4317, 6821, 1455>>)) >>,
    << D(<<340, 2823, 6692, 0938>>, <<4634, 6337, 4607, 4317, 6821, 1455>>), D(<<0>>, <<5000>>),
       Val(D(<<1844, 6744>>, <<0737, 0955, 1615, 9999, 9999, 9999, 9999, 9997, 2894, 9456, 8786, 2389, 1498, 1367, 9978, 2514, 5721, 4335, 5551, 0111, 0844, 3465, 3714>>)) >>,
    << D(<<340, 2823, 6692, 0938>>, <<4634, 6337, 4607, 4317, 6821, 1455>>), N(<<0>>, <<5000>>),
       Val(D(<<0>>, <<0000, 0005, 4210, 1086, 2427, 5221, 7003, 7264, 0043, 4970, 8557, 1368, 7170, 9555, 6622, 6138, 5144, 4019, 8883, 8559, 0279, 7307, 9062, 2931, 8967, 4096, 2640>>)) >>,
    << D(<<340, 2823, 6692, 0938>>, <<4634, 6337, 4607, 4317, 6821, 1455>>), D(<<2>>, <<>>),
       Val(D(<<11, 5792, 0892, 3731, 6195, 4235, 7098, 5008>>, <<6879, 0785, 2589, 4199, 3179, 8687, 1125, 3083, 4793, 0495, 9321, 7025>>)) >>,
    << D(<<340, 2823, 6692, 0938>>, <<4634, 6337, 4607, 4317, 6821, 1455>>), D(<<8>>, <<>>),
       Val(D(<<1, 7976, 9313, 4862, 3159, 0772, 9305, 1907, 8902, 4733, 5757, 1341, 6451, 4533, 5302, 6113, 6287, 8400, 5429, 5339, 3655, 0310, 0392, 4995, 5680, 2180, 0000, 0000, 0000, 0000>>, <<>>)) >>,
    << D(<<340, 2823, 6692, 0938>>, <<4634, 6337, 4607, 4317, 6821, 1455>>), N(<<8>>, <<>>),
       Val(D(<<0>>, <<0000, 0000, 0000, 0000, 0000, 0000, 0000, 0000, 0000, 0000, 0000, 0000, 0000, 0000, 0000, 0000, 0000, 0000, 0000, 0000, 0000, 0000, 0000, 0000, 0000, 0000, 0000, 0000, 0000, 5562, 6846, 4626, 8003, 4577, 2558, 1793, 3310, 1016, 0678, 8180, 3869, 7707, 8312, 9796, 9632, 7685, 9182, 5630, 9645, 7408, 8442, 2122, 0948, 9273>>)) >>,
    << D(<<340, 2823, 6692, 0938>>, <<4634, 6337, 4607, 4317, 6821, 1455>>), D(<<15>>, <<>>),
       Val(D(<<94, 9711, 4518, 0789, 1414, 0546, 9863, 6958, 8496, 9986, 5060, 4396, 0267, 3310, 9668, 3616, 2218, 1419, 0193, 1938, 3446, 0774, 3058, 7024, 9912, 6000, 0000, 0000, 0000, 0000, 0000, 0000, 0000, 0000, 0000, 0000, 0000, 0000, 0000, 0000, 0000, 0000, 0000, 0000, 0000, 0000, 0000, 0000, 0000, 0000, 0000, 0000, 0000, 0000, 0000>>, <<>>)) >>,
    << D(<<340, 2823, 6692, 0938>>, <<4634, 6337, 4607, 4317, 6821, 1455>>), D(<<170, 1411, 8346, 0469>>, <<2317, 3168, 7303, 7158, 8410, 5727>>),
       Exc("Overflow") >>,
    << D(<<340, 2823, 6692, 0938>>, <<4634, 6337, 4607, 4317, 6821, 1455>>), N(<<170, 1411, 8346, 0469>>, <<2317, 3168, 7303, 7158, 8410, 5728>>),
       Val(D(<<0>>, <<>>)) >>,
    << D(<<340, 2823, 6692, 0938>>, <<4634, 6337, 4607, 4317, 6821, 1455>>), D(<<0>>, <<0000, 0000, 0000, 0000, 0000, 0001>>),
       Val(D(<<1>>, <<0000, 0000, 0000, 0000, 0000, 0033, 4607, 9687, 9815, 9031, 8897, 4476, 4466, 8577, 5880, 0758, 4275, 8814, 9227, 6506, 5139, 4172, 2465, 9354, 6480>>)) >>,
    << D(<<340, 2823, 6692, 0938>>, <<4634, 6337, 4607, 4317, 6821, 1455>>), D(<<8>>, <<0300>>),
       Val(D(<<4, 9053, 5839, 4931, 6828, 1850, 2872, 4462, 9038, 9789, 6629, 5957, 7995, 2075, 3866, 7001, 8922, 5123, 2307, 8508, 9554, 4565, 7004, 7307, 4879, 4340, 0000, 0000, 0000, 0000>>, <<>>)) >>,
    << D(<<0>>, <<7000>>), D(<<170, 1411, 8346, 0469>>, <<2317, 3168, 7303, 7158, 8410, 5727>>),
       Val(D(<<0>>, <<>>)) >>,
    << D(<<0>>, <<7000>>), N(<<170, 1411, 8346, 0469>>, <<2317, 3168, 7303, 7158, 8410, 5728>>),
       Exc("Overflow") >>,
    << D(<<0>>, <<7000>>), D(<<0>>, <<0000, 0000, 0000, 0000, 0000, 0001>>),
       Val(D(<<0>>, <<9999, 9999, 9999, 9999, 9999, 9999, 6433, 2505, 6061, 2676, 2108, 7361, 3523, 6732, 3338, 8849, 2592, 2482, 1345, 7093, 9625, 3870, 1194, 1821, 5373>>)) >>,
    << D(<<0>>, <<7000>>), D(<<8>>, <<0300>>),
       Val(D(<<0>>, <<0570, 3445, 0451, 8436, 6758, 6206, 4298, 2335, 3030, 2764, 5996, 3089, 5790, 9689, 5950, 7402, 7270, 3178, 8721, 0434, 6668, 9239, 1254, 9345, 7990>>)) >>
>>

\* mpmath.sin at mp.dps = 100
MpSin == <<
    << D(<<0>>, <<>>),
       Val(D(<<0>>, <<>>)) >>,
    << D(<<0>>, <<0000, 0001>>),
       Val(D(<<0>>, <<0000, 0000, 9999, 9999, 9999, 9999, 8333, 3333, 3333, 3333, 3416, 6666, 6666, 6666, 6664, 6825, 3968, 2539, 6825, 4243, 8271, 6049, 3827, 1602, 4330, 6076, 6394>>)) >>,
    << D(<<0>>, <<0001>>),
       Val(D(<<0>>, <<0000, 9999, 9999, 8333, 3333, 3416, 6666, 6664, 6825, 3968, 2815, 2557, 3189, 7346, 4806, 8141, 9917, 5309, 5217, 0502, 4378, 6415, 6857, 2274, 6763, 9438>>)) >>,
    << D(<<0>>, <<7000>>),
       Val(D(<<0>>, <<6442, 1768, 7237, 6910, 5367, 2614, 3513, 9872, 0183, 0658, 1384, 4573, 6896, 4474, 3963, 0880, 9382, 9975, 4496, 7566, 4714, 6266, 9216, 8757, 7054>>)) >>,
    << D(<<1>>, <<>>),
       Val(D(<<0>>, <<8414, 7098, 4807, 8965, 0665, 2502, 3216, 3029, 8999, 6225, 6306, 0798, 3710, 6567, 2751, 7099, 9191, 0404, 3912, 3966, 8948, 6397, 4354, 3052, 6959>>)) >>,
    << D(<<2>>, <<>>),
       Val(D(<<0>>, <<9092, 9742, 6825, 6816, 9539, 6019, 8659, 1174, 4842, 7022, 5497, 1447, 8902, 6837, 8973, 0115, 3096, 7301, 5407, 8354, 4620, 1266, 8892, 4959, 3803>>)) >>,
    << D(<<1844, 6744, 0737>>, <<0955, 1615>>),
       Val(N(<<0>>, <<9047, 9424, 2194, 7095, 1736, 5167, 3657, 2125, 3687, 1542, 4857, 3901, 3807, 9795, 3098, 3289, 0122, 1557, 2247, 0031, 2928, 6249, 0110, 2233, 1199>>)) >>,
    << D(<<922, 3372, 0368>>, <<5477, 5808>>),
       Val(D(<<0>>, <<5357, 9426, 1346, 3594, 2250, 8391, 3413, 2552, 5781, 3217, 0168, 1472, 4513, 0652, 2309, 8169, 8230, 5087, 9545, 3069, 0465, 4508, 0994, 4335, 2290>>)) >>,
    << D(<<1>>, <<5707, 9632>>),
       Val(D(<<0>>, <<9999, 9999, 9999, 9999, 7691, 4689, 9669, 7937, 7527, 8708, 6071, 7686, 1838, 8250, 8543, 1506, 1158, 9166, 7667, 5028, 6877, 3396, 0631, 6890, 5966>>)) >>,
    << D(<<1>>, <<5707, 9633>>),
       Val(D(<<0>>, <<9999, 9999, 9999, 9999, 9486, 3656, 1592, 9259, 4359, 8434, 5659, 3553, 7452, 3701, 1922, 0001, 5947, 9312, 9966, 1904, 3284, 0259, 0126, 4667, 2307>>)) >>,
    << D(<<3>>, <<1415, 9265>>),
       Val(D(<<0>>, <<0000, 0000, 3589, 7932, 3846, 2643, 3755, 6945, 5355, 8132, 6383, 6949, 0755, 2339, 5074, 2325, 4258, 8573, 3260, 7161, 7272, 1715, 5490, 0965, 6841, 1772, 3025>>)) >>,
    << D(<<3>>, <<1415, 9266>>),
       Val(N(<<0>>, <<0000, 0000, 6410, 2067, 6153, 7356, 5728, 2046, 2426, 0916, 7464, 5429, 2803, 5383, 5026, 0503, 3156, 8571, 3538, 4956, 0498, 2942, 6630, 3112, 7606, 5132, 5324>>)) >>,
    << D(<<4>>, <<7123, 8898>>),
       Val(N(<<0>>, <<9999, 9999, 9999, 9999, 9992, 6006, 8566, 9369, 8449, 8264, 3650, 1609, 5363, 6057, 9280, 7455, 8020, 5187, 0008, 3193, 1297, 5135, 4429, 8886, 6966>>)) >>,
    << D(<<6>>, <<2831, 8530>>),
       Val(N(<<0>>, <<0000, 0000, 7179, 5864, 7692, 5286, 7048, 7862, 5541, 3230, 9441, 8569, 6707, 9624, 7976, 6924, 0933, 1686, 2046, 3306, 1019, 0510, 7706, 7685, 7853, 5997, 5252>>)) >>,
    << D(<<0>>, <<9999, 9999>>),
       Val(D(<<0>>, <<8414, 7097, 9404, 8734, 0589, 7555, 9972, 7649, 2254, 5372, 1039, 5154, 7064, 9857, 7979, 8105, 5143, 6927, 6973, 3046, 6754, 8050, 0689, 3725, 9901>>)) >>,
    << D(<<1>>, <<0000, 0001>>),
       Val(D(<<0>>, <<8414, 7099, 0210, 9195, 2326, 0350, 1651, 9445, 5780, 6835, 0423, 6659, 2222, 1017, 7083, 3106, 8748, 4916, 2915, 2007, 9567, 5300, 8234, 5862, 7259>>)) >>,
    << D(<<4>>, <<>>),
       Val(N(<<0>>, <<7568, 0249, 5307, 9282, 5137, 2639, 0945, 1182, 9094, 1359, 1288, 7336, 4725, 7148, 5416, 7734, 0131, 0493, 6191, 7941, 6423, 5728, 1056, 2422, 7481>>)) >>,
    << D(<<2>>, <<7182, 8183>>),
       Val(D(<<0>>, <<4107, 8128, 9097, 9679, 7491, 3709, 3431, 2971, 2568, 2609, 3249, 7702, 6275, 7030, 1504, 1065, 0464, 0117, 3337, 2419, 2811, 1459, 2683, 8632, 2185>>)) >>,
    << D(<<25>>, <<9408, 1146>>),
       Val(D(<<0>>, <<7229, 5525, 4063, 7810, 9059, 7610, 7644, 7928, 4274, 0245, 1234, 3933, 6792, 3911, 4091, 6070, 0519, 2820, 5196, 7120, 6737, 3172, 8933, 7501, 2559>>)) >>,
    << D(<<0>>, <<2500>>),
       Val(D(<<0>>, <<2474, 0395, 9254, 5229, 2959, 6848, 7048, 4938, 9195, 8933, 9098, 0386, 9658, 1067, 6544, 8304, 9439, 8136, 0434, 8682, 1690, 9848, 4852, 7973, 7923>>)) >>,
    << D(<<922, 3372, 0368>>, <<5477, 5807>>),
       Val(D(<<0>>, <<5357, 9426, 9789, 8451, 0665, 7668, 6264, 9153, 6252, 6838, 0132, 4343, 3447, 0539, 1572, 9948, 2510, 5531, 3147, 7681, 9011, 2945, 6251, 6054, 6245>>)) >>,
    << N(<<0>>, <<0000, 0001>>),
       Val(N(<<0>>, <<0000, 0000, 9999, 9999, 9999, 9999, 8333, 3333, 3333, 3333, 3416, 6666, 6666, 6666, 6664, 6825, 3968, 2539, 6825, 4243, 8271, 6049, 3827, 1602, 4330, 6076, 6394>>)) >>,
    << N(<<0>>, <<7000>>),
       Val(N(<<0>>, <<6442, 1768, 7237, 6910, 5367, 2614, 3513, 9872, 0183, 0658, 1384, 4573, 6896, 4474, 3963, 0880, 9382, 9975, 4496, 7566, 4714, 6266, 9216, 8757, 7054>>)) >>,
    << N(<<1>>, <<>>),
       Val(N(<<0>>, <<8414, 7098, 4807, 8965, 0665, 2502, 3216, 3029, 8999, 6225, 6306, 0798, 3710, 6567, 2751, 7099, 9191, 0404, 3912, 3966, 8948, 6397, 4354, 3052, 6959>>)) >>,
    << N(<<2>>, <<>>),
       Val(N(<<0>>, <<9092, 9742, 6825, 6816, 9539, 6019, 8659, 1174, 4842, 7022, 5497, 1447, 8902, 6837, 8973, 0115, 3096, 7301, 5407, 8354, 4620, 1266, 8892, 4959, 3803>>)) >>,
    << N(<<922, 3372, 0368>>, <<5477, 5808>>),
       Val(N(<<0>>, <<5357, 9426, 1346, 3594, 2250, 8391, 3413, 2552, 5781, 3217, 0168, 1472, 4513, 0652, 2309, 8169, 8230, 5087, 9545, 3069, 0465, 4508, 0994, 4335, 2290>>)) >>,
    << N(<<1>>, <<5707, 9633>>),
       Val(N(<<0>>, <<9999, 9999, 9999, 9999, 9486, 3656, 1592, 9259, 4359, 8434, 5659, 3553, 7452, 3701, 1922, 0001, 5947, 9312, 9966, 1904, 3284, 0259, 0126, 4667, 2307>>)) >>,
    << N(<<3>>, <<1415, 9265>>),
       Val(N(<<0>>, <<0000, 0000, 3589, 7932, 3846, 2643, 3755, 6945, 5355, 8132, 6383, 6949, 0755, 2339, 5074, 2325, 4258, 8573, 3260, 7161, 7272, 1715, 5490, 0965, 6841, 1772, 3025>>)) >>,
    << D(<<6>>, <<2831, 8531>>),
       Val(D(<<0>>, <<0000, 0000, 2820, 4135, 2307, 4713, 2297, 0172, 1740, 0323, 2096, 2802, 6185, 7025, 5316, 3485, 5283, 6960, 1633, 4742, 3137, 9973, 8298, 1185, 7787, 6764, 6176>>)) >>,
    << N(<<18>>, <<4200>>),
       Val(D(<<0>>, <<4164, 6710, 9226, 3975, 4172, 7799, 8565, 9899, 8749, 3502, 7154, 3516, 4248, 4700, 8728, 2586, 4906, 6197, 2335, 1021, 7093, 6039, 4017, 9390, 5487>>)) >>,
    << N(<<18>>, <<5000>>),
       Val(D(<<0>>, <<3424, 8061, 8469, 6125, 5707, 3117, 9301, 1888, 2967, 6487, 0632, 5372, 4389, 6764, 5057, 1607, 6069, 3521, 7513, 0969, 4221, 9952, 5876, 2406, 4504>>)) >>,
    << N(<<19>>, <<2000>>),
       Val(N(<<0>>, <<3433, 1492, 8819, 8960, 5273, 2361, 8475, 5429, 6144, 4050, 9266, 0520, 5413, 5430, 4778, 7628, 9727, 2784, 1903, 6528, 6062, 6602, 3748, 2921, 4493>>)) >>,
    << D(<<25>>, <<9000>>),
       Val(D(<<0>>, <<6941, 6466, 8252, 2429, 9875, 8184, 8559, 1585, 8188, 2216, 9081, 8069, 8782, 9343, 5175, 1999, 5107, 3910, 4462, 2797, 6035, 8464, 6837, 5308, 4277>>)) >>,
    << D(<<26>>, <<>>),
       Val(D(<<0>>, <<7625, 5845, 0479, 6027, 3751, 5823, 2932, 0456, 2973, 0960, 7425, 9418, 1657, 8620, 6966, 5905, 5965, 6988, 8588, 9980, 0418, 7710, 7628, 6558, 3260>>)) >>,
    << D(<<89>>, <<>>),
       Val(D(<<0>>, <<8600, 6940, 5812, 4532, 2683, 6846, 1810, 2364, 9270, 4562, 2251, 0773, 3579, 4273, 0996, 1299, 3844, 1568, 2954, 0368, 9892, 4651, 4814, 7507, 6612>>)) >>,
    << N(<<4>>, <<>>),
       Val(D(<<0>>, <<7568, 0249, 5307, 9282, 5137, 2639, 0945, 1182, 9094, 1359, 1288, 7336, 4725, 7148, 5416, 7734, 0131, 0493, 6191, 7941, 6423, 5728, 1056, 2422, 7481>>)) >>,
    << N(<<300, 0000>>, <<>>),
       Val(D(<<0>>, <<8784, 9005, 8144, 7478, 4693, 3761, 1405, 0457, 8665, 8931, 7960, 3178, 5441, 9632, 9640, 0198, 2065, 6891, 7704, 5924, 8449, 6088, 5480, 4746, 5744>>)) >>,
    << D(<<461, 1686, 0184>>, <<2738, 7903>>),
       Val(D(<<0>>, <<9602, 9905, 7684, 1189, 5633, 7768, 9734, 7694, 7842, 5288, 1852, 0969, 7260, 9715, 7134, 1406, 8799, 8670, 4165, 4476, 2750, 4734, 2698, 6196, 9371>>)) >>,
    << N(<<0>>, <<0001>>),
       Val(N(<<0>>, <<0000, 9999, 9999, 8333, 3333, 3416, 6666, 6664, 6825, 3968, 2815, 2557, 3189, 7346, 4806, 8141, 9917, 5309, 5217, 0502, 4378, 6415, 6857, 2274, 6763, 9438>>)) >>,
    << D(<<3>>, <<>>),
       Val(D(<<0>>, <<1411, 2000, 8059, 8672, 2210, 0744, 8028, 0811, 0279, 8469, 3326, 4252, 2655, 8415, 1882, 6412, 3242, 2009, 9670, 1447, 1911, 2821, 7285, 3449, 8638>>)) >>,
    << N(<<3>>, <<>>),
       Val(N(<<0>>, <<1411, 2000, 8059, 8672, 2210, 0744, 8028, 0811, 0279, 8469, 3326, 4252, 2655, 8415, 1882, 6412, 3242, 2009, 9670, 1447, 1911, 2821, 7285, 3449, 8638>>)) >>,
    << D(<<0>>, <<0000, 0000, 0000, 0000, 0000, 0001>>),
       Val(D(<<0>>, <<0000, 0000, 0000, 0000, 0000, 0000, 9999, 9999, 9999, 9999, 9999, 9999, 9999, 9999, 9999, 9999, 9999, 9999, 8333, 3333, 3333, 3333, 3333, 3333, 3333, 3333, 3333, 3333, 3333, 3333, 3417>>)) >>,
    << D(<<0>>, <<0000, 0000, 0001>>),
       Val(D(<<0>>, <<0000, 0000, 0000, 9999, 9999, 9999, 9999, 9999, 9999, 8333, 3333, 3333, 3333, 3333, 3333, 3416, 6666, 6666, 6666, 6666, 6666, 6664, 6825, 3968, 2539, 6825, 3968, 2540>>)) >>,
    << D(<<340, 2823, 6692, 0938>>, <<4634, 6337, 4607, 4317, 6821, 1455>>),
       Val(D(<<0>>, <<5409, 9733, 5008, 7298, 7780, 2029, 5927, 6376, 3982, 7726, 3499, 2172, 6688, 5141, 7437, 1551, 4810, 8037, 6719, 5728, 7206, 2763, 0870, 4887, 2981>>)) >>,
    << D(<<170, 1411, 8346, 0469>>, <<2317, 3168, 7303, 7158, 8410, 5728>>),
       Val(N(<<0>>, <<9594, 3324, 5759, 4787, 2921, 2847, 2840, 3011, 3542, 4202, 0593, 8471, 4177, 9283, 9235, 3100, 9624, 1750, 1503, 2666, 8251, 6000, 8865, 7750, 5805>>)) >>,
    << D(<<1>>, <<5707, 9632, 6794, 8966, 1923, 1321>>),
       Val(D(<<0>>, <<9999, 9999, 9999, 9999, 9999, 9999, 9999, 9999, 9999, 9999, 9999, 9999, 7608, 1722, 7112, 5560, 4436, 3130, 1118, 3045, 7714, 7435, 3578, 6571, 9088>>)) >>,
    << D(<<1>>, <<5707, 9632, 6794, 8966, 1923, 1322>>),
       Val(D(<<0>>, <<9999, 9999, 9999, 9999, 9999, 9999, 9999, 9999, 9999, 9999, 9999, 9999, 9524, 5697, 8554, 6546, 2906, 2817, 6647, 4094, 5187, 0396, 8969, 4775, 0428>>)) >>,
    << D(<<3>>, <<1415, 9265, 3589, 7932, 3846, 2643>>),
       Val(D(<<0>>, <<0000, 0000, 0000, 0000, 0000, 0000, 3832, 7950, 2884, 1971, 6939, 9375, 1058, 2097, 4944, 5923, 0781, 6406, 2768, 2483, 5831, 4356, 5283, 9974, 3768, 1820, 4104, 9214, 4693, 3151, 9130>>)) >>,
    << D(<<3>>, <<1415, 9265, 3589, 7932, 3846, 2644>>),
       Val(N(<<0>>, <<0000, 0000, 0000, 0000, 0000, 0000, 6167, 2049, 7115, 8028, 3060, 0624, 8941, 7902, 5055, 4076, 9218, 3593, 6746, 9666, 0278, 4176, 1204, 4942, 0625, 6842, 2504, 2744, 9127, 1078, 4475>>)) >>,
    << D(<<4>>, <<7123, 8898, 0384, 6898, 5769, 3965>>),
       Val(N(<<0>>, <<9999, 9999, 9999, 9999, 9999, 9999, 9999, 9999, 9999, 9999, 9999, 9999, 9971, 9355, 2665, 5959, 0746, 6296, 3239, 3704, 4266, 4687, 4552, 8365, 9521>>)) >>,
    << D(<<6>>, <<2831, 8530, 7179, 5864, 7692, 5286>>),
       Val(N(<<0>>, <<0000, 0000, 0000, 0000, 0000, 0000, 7665, 5900, 5768, 3943, 3879, 8750, 2116, 4194, 9889, 1846, 1563, 2812, 4973, 4469, 4883, 2762, 7066, 7092, 6066, 5274, 4320, 2918, 8162, 5332, 7426>>)) >>,
    << D(<<0>>, <<9999, 9999, 9999, 9999, 9999, 9999>>),
       Val(D(<<0>>, <<8414, 7098, 4807, 8965, 0665, 2501, 7813, 2799, 3131, 4828, 4565, 9861, 3428, 8720, 3744, 0294, 2816, 3535, 3982, 4723, 3662, 9297, 0047, 9081, 5388>>)) >>,
    << D(<<1>>, <<0000, 0000, 0000, 0000, 0000, 0001>>),
       Val(D(<<0>>, <<8414, 7098, 4807, 8965, 0665, 2502, 8619, 3260, 4867, 7622, 8046, 1734, 5577, 7315, 6951, 4940, 4900, 4771, 0626, 0180, 5234, 7272, 2354, 6225, 5519>>)) >>,
    << D(<<2>>, <<7182, 8182, 8459, 0452, 3536, 0287>>),
       Val(D(<<0>>, <<4107, 8129, 0502, 9086, 9547, 6009, 9217, 6656, 8816, 2276, 3227, 0009, 3901, 0739, 8000, 0772, 2110, 5891, 2599, 2112, 6352, 1689, 1437, 5939, 1491>>)) >>,
    << D(<<33>>, <<4600>>),
       Val(D(<<0>>, <<8900, 7933, 2758, 1733, 5952, 1859, 0538, 7995, 9296, 2726, 6326, 6874, 5761, 5881, 7597, 1758, 6601, 9098, 7474, 1683, 7614, 9139, 4428, 7433, 8233>>)) >>,
    << D(<<170, 1411, 8346, 0469>>, <<2317, 3168, 7303, 7158, 8410, 5727>>),
       Val(N(<<0>>, <<9594, 3324, 5759, 4787, 2921, 2847, 0020, 9422, 2014, 8750, 8081, 1830, 9424, 3362, 6614, 5962, 3561, 3011, 5812, 7980, 7518, 6863, 8099, 9195, 1623>>)) >>,
    << N(<<0>>, <<0000, 0000, 0000, 0000, 0000, 0001>>),
       Val(N(<<0>>, <<0000, 0000, 0000, 0000, 0000, 0000, 9999, 9999, 9999, 9999, 9999, 9999, 9999, 9999, 9999, 9999, 9999, 9999, 8333, 3333, 3333, 3333, 3333, 3333, 3333, 3333, 3333, 3333, 3333, 3333, 3417>>)) >>,
    << N(<<170, 1411, 8346, 0469>>, <<2317, 3168, 7303, 7158, 8410, 5728>>),
       Val(D(<<0>>, <<9594, 3324, 5759, 4787, 2921, 2847, 2840, 3011, 3542, 4202, 0593, 8471, 4177, 9283, 9235, 3100, 9624, 1750, 1503, 2666, 8251, 6000, 8865, 7750, 5805>>)) >>,
    << N(<<1>>, <<5707, 9632, 6794, 8966, 1923, 1322>>),
       Val(N(<<0>>, <<9999, 9999, 9999, 9999, 9999, 9999, 9999, 9999, 9999, 9999, 9999, 9999, 9524, 5697, 8554, 6546, 2906, 2817, 6647, 4094, 5187, 0396, 8969, 4775, 0428>>)) >>,
    << N(<<3>>, <<1415, 9265, 3589, 7932, 3846, 2643>>),
       Val(N(<<0>>, <<0000, 0000, 0000, 0000, 0000, 0000, 3832, 7950, 2884, 1971, 6939, 9375, 1058, 2097, 4944, 5923, 0781, 6406, 2768, 2483, 5831, 4356, 5283, 9974, 3768, 1820, 4104, 9214, 4693, 3151, 9130>>)) >>,
    << D(<<6>>, <<2831, 8530, 7179, 5864, 7692, 5287>>),
       Val(D(<<0>>, <<0000, 0000, 0000, 0000, 0000, 0000, 2334, 4099, 4231, 6056, 6120, 1249, 7883, 5805, 0110, 8153, 8436, 7187, 4254, 6178, 6671, 9396, 1947, 3198, 0450, 7278, 7171, 8995, 6337, 5182, 4123>>)) >>,
    << N(<<55>>, <<2600>>),
       Val(D(<<0>>, <<9604, 6502, 1410, 4963, 2417, 1687, 6216, 3592, 6139, 1695, 3618, 4022, 1622, 8984, 7598, 6705, 7821, 8784, 3726, 0171, 8914, 6507, 1532, 2506, 4508>>)) >>,
    << N(<<55>>, <<5000>>),
       Val(D(<<0>>, <<8667, 5957, 4260, 7592, 4728, 7135, 6135, 7564, 5223, 5652, 1680, 8212, 2601, 2284, 4493, 4041, 0633, 7881, 0814, 8238, 0532, 7132, 2988, 5951, 1357>>)) >>,
    << N(<<56>>, <<>>),
       Val(D(<<0>>, <<5215, 5100, 2086, 9118, 8018, 7410, 0215, 1060, 0537, 8180, 0425, 0507, 3744, 5822, 2623, 2996, 7121, 5193, 5299, 8833, 8798, 0363, 2199, 3472, 4247>>)) >>,
    << D(<<33>>, <<4000>>),
       Val(D(<<0>>, <<9158, 0960, 2890, 8184, 5137, 0815, 0035, 9120, 6898, 7048, 8297, 9029, 3703, 4636, 8593, 1633, 9360, 5126, 0029, 2104, 1818, 8117, 4161, 3050, 9090>>)) >>,
    << D(<<33>>, <<5000>>),
       Val(D(<<0>>, <<8711, 4000, 0169, 1763, 2802, 8831, 7292, 7003, 5536, 6626, 9346, 7572, 7622, 5331, 6373, 6863, 8924, 7874, 0616, 2300, 6004, 4531, 2005, 4050, 4751>>)) >>,
    << D(<<85, 0705, 9173, 0234>>, <<6158, 6584, 3651, 8579, 4205, 2863>>),
       Val(D(<<0>>, <<8006, 0473, 7535, 1788, 1775, 7172, 8446, 3093, 0160, 1624, 5136, 0756, 3577, 9480, 3515, 4942, 7140, 2660, 1818, 9561, 7320, 2120, 1107, 6200, 9432>>)) >>,
    << N(<<0>>, <<0000, 0000, 0001>>),
       Val(N(<<0>>, <<0000, 0000, 0000, 9999, 9999, 9999, 9999, 9999, 9999, 8333, 3333, 3333, 3333, 3333, 3333, 3416, 6666, 6666, 6666, 6666, 6666, 6664, 6825, 3968, 2539, 6825, 3968, 2540>>)) >>,
    << D(<<0>>, <<1000>>),
       Val(D(<<0>>, <<0998, 3341, 6646, 8281, 5230, 6814, 1984, 1062, 2026, 9899, 1538, 8017, 9822, 5999, 2766, 8615, 6165, 1744, 2832, 9242, 7609, 6624, 4380, 4063, 0362, 7000>>)) >>,
    << D(<<0>>, <<5000>>),
       Val(D(<<0>>, <<4794, 2553, 8604, 2030, 0027, 3287, 9352, 1557, 1388, 0818, 0336, 7940, 6006, 7518, 8616, 6131, 2553, 5000, 2878, 1483, 2209, 6312, 7468, 4348, 2691>>)) >>,
    << D(<<10>>, <<>>),
       Val(N(<<0>>, <<5440, 2111, 0889, 3698, 1340, 4747, 6618, 5137, 7281, 6836, 4301, 2916, 2238, 9157, 4184, 0126, 1675, 7209, 6404, 9342, 5707, 0756, 7389, 4983, 2162>>)) >>,
    << D(<<12, 3456>>, <<7890>>),
       Val(N(<<0>>, <<9986, 6408, 2343, 4470, 9786, 7599, 1225, 8314, 3434, 6922, 2169, 2010, 4088, 5240, 2537, 9779, 8305, 5986, 7443, 5020, 8168, 0203, 8249, 9882, 8389>>)) >>,
    << N(<<0>>, <<1000>>),
       Val(N(<<0>>, <<0998, 3341, 6646, 8281, 5230, 6814, 1984, 1062, 2026, 9899, 1538, 8017, 9822, 5999, 2766, 8615, 6165, 1744, 2832, 9242, 7609, 6624, 4380, 4063, 0362, 7000>>)) >>,
    << N(<<0>>, <<2500>>),
       Val(N(<<0>>, <<2474, 0395, 9254, 5229, 2959, 6848, 7048, 4938, 9195, 8933, 9098, 0386, 9658, 1067, 6544, 8304, 9439, 8136, 0434, 8682, 1690, 9848, 4852, 7973, 7923>>)) >>,
    << N(<<0>>, <<5000>>),
       Val(N(<<0>>, <<4794, 2553, 8604, 2030, 0027, 3287, 9352, 1557, 1388, 0818, 0336, 7940, 6006, 7518, 8616, 6131, 2553, 5000, 2878, 1483, 2209, 6312, 7468, 4348, 2691>>)) >>,
    << N(<<10>>, <<>>),
       Val(D(<<0>>, <<5440, 2111, 0889, 3698, 1340, 4747, 6618, 5137, 7281, 6836, 4301, 2916, 2238, 9157, 4184, 0126, 1675, 7209, 6404, 9342, 5707, 0756, 7389, 4983, 2162>>)) >>,
    << N(<<12, 3456>>, <<7890>>),
       Val(D(<<0>>, <<9986, 6408, 2343, 4470, 9786, 7599, 1225, 8314, 3434, 6922, 2169, 2010, 4088, 5240, 2537, 9779, 8305, 5986, 7443, 5020, 8168, 0203, 8249, 9882, 8389>>)) >>,
    << D(<<922, 3372, 0367>>, <<5477, 5807>>),
       Val(D(<<0>>, <<9999, 8569, 8569, 3596, 3007, 2853, 7046, 0314, 0607, 2294, 8451, 1221, 7310, 9510, 3379, 9365, 2142, 2790, 2598, 3281, 8149, 1072, 2849, 2309, 8322>>)) >>,
    << D(<<922, 3372, 0368>>, <<5477, 5806>>),
       Val(D(<<0>>, <<5357, 9427, 8233, 3307, 3722, 7518, 9326, 7303, 6504, 7742, 6314, 2931, 5335, 6228, 7143, 0650, 4390, 7947, 3156, 4729, 5734, 6559, 4351, 6746, 6660>>)) >>,
    << D(<<461, 1686, 0183>>, <<2738, 7903>>),
       Val(D(<<0>>, <<2841, 0443, 4275, 5536, 5466, 7092, 9609, 3359, 9846, 1579, 1836, 7756, 5223, 3229, 6544, 6160, 5687, 9028, 0953, 7374, 8384, 7452, 1025, 9183, 9183>>)) >>,
    << D(<<461, 1686, 0184>>, <<2738, 7902>>),
       Val(D(<<0>>, <<9602, 9905, 4894, 3927, 6027, 5428, 0758, 3290, 3283, 4220, 1965, 2521, 9700, 3919, 5613, 0212, 3633, 8372, 7647, 5824, 4510, 4247, 8806, 4599, 4009>>)) >>,
    << D(<<461, 1686, 0185>>, <<2738, 7903>>),
       Val(D(<<0>>, <<7535, 9915, 6103, 9087, 1845, 6442, 4138, 5648, 5841, 8569, 8361, 0637, 7678, 9774, 3654, 6326, 0630, 4605, 7650, 7893, 8993, 5695, 3793, 2580, 5398>>)) >>,
    << D(<<461, 1686, 0184>>, <<2738, 7904>>),
       Val(D(<<0>>, <<9602, 9906, 0473, 8450, 5637, 0204, 1027, 0909, 7568, 1079, 3477, 8488, 4921, 8288, 0231, 9380, 7093, 2962, 6224, 9687, 4602, 1023, 3095, 0661, 3883>>)) >>,
    << N(<<922, 3372, 0367>>, <<5477, 5808>>),
       Val(N(<<0>>, <<9999, 8569, 8515, 8781, 2838, 2518, 4554, 8110, 7897, 7821, 3571, 4682, 4691, 7442, 3758, 0662, 1022, 0533, 1039, 1814, 1856, 7899, 6687, 3969, 3400>>)) >>,
    << N(<<922, 3372, 0368>>, <<5477, 5807>>),
       Val(N(<<0>>, <<5357, 9426, 9789, 8451, 0665, 7668, 6264, 9153, 6252, 6838, 0132, 4343, 3447, 0539, 1572, 9948, 2510, 5531, 3147, 7681, 9011, 2945, 6251, 6054, 6245>>)) >>,
    << N(<<461, 1686, 0184>>, <<2738, 7904>>),
       Val(N(<<0>>, <<9602, 9906, 0473, 8450, 5637, 0204, 1027, 0909, 7568, 1079, 3477, 8488, 4921, 8288, 0231, 9380, 7093, 2962, 6224, 9687, 4602, 1023, 3095, 0661, 3883>>)) >>,
    << N(<<461, 1686, 0185>>, <<2738, 7904>>),
       Val(N(<<0>>, <<7535, 9914, 9530, 5662, 1351, 1625, 8719, 4733, 6771, 3007, 4710, 6058, 7026, 3738, 6455, 3539, 9467, 3532, 4098, 3270, 7806, 7192, 6962, 2793, 8755>>)) >>,
    << N(<<461, 1686, 0184>>, <<2738, 7905>>),
       Val(N(<<0>>, <<9602, 9906, 3263, 5710, 6037, 2733, 1845, 5674, 2456, 9158, 5782, 6635, 0457, 6548, 2547, 2723, 9413, 7236, 2388, 1541, 1588, 1328, 2306, 5419, 8745>>)) >>,
    << N(<<461, 1686, 0183>>, <<2738, 7904>>),
       Val(N(<<0>>, <<2841, 0444, 3863, 4870, 4878, 8024, 1092, 3330, 6154, 6943, 5764, 7663, 4695, 3097, 9348, 0129, 0852, 2905, 2238, 9117, 3439, 9149, 9840, 1671, 5985>>)) >>,
    << N(<<461, 1686, 0184>>, <<2738, 7903>>),
       Val(N(<<0>>, <<9602, 9905, 7684, 1189, 5633, 7768, 9734, 7694, 7842, 5288, 1852, 0969, 7260, 9715, 7134, 1406, 8799, 8670, 4165, 4476, 2750, 4734, 2698, 6196, 9371>>)) >>,
    << D(<<0>>, <<5235, 9878>>),
       Val(D(<<0>>, <<5000, 0000, 3811, 9849, 9093, 8073, 6210, 5534, 6493, 3339, 8419, 3862, 0447, 3697, 4500, 3428, 4480, 4610, 1662, 7534, 1761, 1463, 3934, 9763, 7460>>)) >>,
    << D(<<0>>, <<7853, 9816>>),
       Val(D(<<0>>, <<7071, 0677, 8784, 1887, 8185, 9892, 6898, 7670, 3293, 4786, 1431, 0449, 9312, 5193, 7590, 9033, 0725, 7767, 2115, 7443, 5708, 7890, 0122, 6348, 0936>>)) >>,
    << D(<<1>>, <<0471, 9755>>),
       Val(D(<<0>>, <<8660, 2540, 3186, 1397, 7306, 6608, 3632, 7157, 1795, 4198, 1856, 4957, 6811, 5418, 9925, 3333, 8554, 6594, 8722, 6669, 6062, 3209, 0198, 6586, 7075>>)) >>,
    << D(<<2>>, <<3561, 9449>>),
       Val(D(<<0>>, <<7071, 0678, 1322, 5559, 2790, 2309, 4326, 8946, 1970, 8798, 8987, 4995, 5830, 9382, 3383, 2323, 6672, 2522, 9735, 6939, 8190, 0666, 0011, 9271, 2497>>)) >>,
    << N(<<0>>, <<5235, 9878>>),
       Val(N(<<0>>, <<5000, 0000, 3811, 9849, 9093, 8073, 6210, 5534, 6493, 3339, 8419, 3862, 0447, 3697, 4500, 3428, 4480, 4610, 1662, 7534, 1761, 1463, 3934, 9763, 7460>>)) >>,
    << N(<<2>>, <<3561, 9449>>),
       Val(N(<<0>>, <<7071, 0678, 1322, 5559, 2790, 2309, 4326, 8946, 1970, 8798, 8987, 4995, 5830, 9382, 3383, 2323, 6672, 2522, 9735, 6939, 8190, 0666, 0011, 9271, 2497>>)) >>,
    << D(<<0>>, <<5235, 9879>>),
       Val(D(<<0>>, <<5000, 0001, 2472, 2389, 8177, 3954, 0352, 4520, 4896, 7670, 3134, 8061, 1895, 0980, 9154, 4573, 6273, 0349, 5109, 1315, 6302, 1361, 2954, 8211, 6609>>)) >>,
    << D(<<0>>, <<7853, 9817>>),
       Val(D(<<0>>, <<7071, 0678, 5855, 2565, 8239, 3616, 2206, 1519, 7889, 5770, 9188, 6836, 5477, 9191, 8480, 9026, 0493, 7493, 0756, 4985, 6304, 4032, 5981, 0490, 1662>>)) >>,
    << D(<<1>>, <<0471, 9756>>),
       Val(D(<<0>>, <<8660, 2540, 8186, 1397, 4012, 8178, 5798, 5916, 2534, 4633, 2865, 0062, 1638, 1644, 7243, 3040, 9155, 5980, 4599, 9973, 5036, 2955, 8985, 2029, 6838>>)) >>,
    << D(<<1>>, <<5707, 9634>>),
       Val(D(<<0>>, <<9999, 9999, 9999, 9999, 1281, 2622, 3516, 0581, 2538, 7837, 6987, 3495, 1968, 8243, 8663, 1270, 5038, 7077, 7429, 1136, 1006, 4319, 7895, 2582, 2852>>)) >>,
    << D(<<4>>, <<7123, 8899>>),
       Val(N(<<0>>, <<9999, 9999, 9999, 9999, 5377, 2905, 4336, 3334, 9555, 1754, 4594, 1658, 5402, 4986, 7342, 4321, 7356, 0454, 2045, 7225, 2727, 1722, 8298, 7521, 3184>>)) >>,
    << D(<<6>>, <<2831, 8532>>),
       Val(D(<<0>>, <<0000, 0001, 2820, 4135, 2307, 4712, 8822, 4071, 6713, 9164, 1572, 4347, 3364, 9578, 7530, 0262, 0592, 3400, 3970, 9353, 9557, 3243, 2821, 6316, 7916, 9050, 2420>>)) >>,
    << D(<<2>>, <<3561, 9450>>),
       Val(D(<<0>>, <<7071, 0677, 4251, 4880, 8204, 1579, 2756, 8060, 8397, 2457, 0472, 3631, 0261, 0332, 7888, 0935, 8611, 4053, 2957, 7382, 5281, 8498, 8700, 2782, 0259>>)) >>,
    << N(<<0>>, <<5235, 9877>>),
       Val(N(<<0>>, <<4999, 9999, 5151, 7309, 5010, 2192, 8256, 6698, 9412, 7602, 4477, 7449, 0750, 2358, 0544, 9105, 0839, 9492, 7571, 2204, 1422, 5820, 7618, 9308, 9338>>)) >>,
    << N(<<1>>, <<5707, 9632>>),
       Val(N(<<0>>, <<9999, 9999, 9999, 9999, 7691, 4689, 9669, 7937, 7527, 8708, 6071, 7686, 1838, 8250, 8543, 1506, 1158, 9166, 7667, 5028, 6877, 3396, 0631, 6890, 5966>>)) >>,
    << N(<<3>>, <<1415, 9264>>),
       Val(N(<<0>>, <<0000, 0001, 3589, 7932, 3846, 2642, 9649, 8004, 9291, 4538, 6775, 3876, 2612, 0483, 4927, 1567, 4077, 1937, 7646, 3044, 5262, 5852, 8947, 0570, 6778, 0448, 2870>>)) >>,
    << N(<<2>>, <<3561, 9448>>),
       Val(N(<<0>>, <<7071, 0678, 8393, 6237, 0305, 2361, 4574, 4272, 3343, 5387, 8285, 9543, 8809, 5073, 5581, 1057, 0753, 4455, 7247, 3824, 0949, 7571, 3802, 8048, 1347>>)) >>,
    << D(<<0>>, <<5235, 9877>>),
       Val(D(<<0>>, <<4999, 9999, 5151, 7309, 5010, 2192, 8256, 6698, 9412, 7602, 4477, 7449, 0750, 2358, 0544, 9105, 0839, 9492, 7571, 2204, 1422, 5820, 7618, 9308, 9338>>)) >>,
    << D(<<0>>, <<7853, 9815>>),
       Val(D(<<0>>, <<7071, 0677, 1713, 1209, 1061, 5491, 2807, 1933, 1100, 6465, 1673, 3216, 9682, 8315, 3681, 4668, 5591, 7976, 4280, 7440, 2757, 3734, 7639, 4232, 3473>>)) >>,
    << D(<<1>>, <<0471, 9754>>),
       Val(D(<<0>>, <<8660, 2539, 8186, 1397, 1940, 2497, 8280, 7000, 4471, 4033, 0814, 1145, 8274, 3316, 4933, 6317, 2188, 5973, 1007, 2386, 4912, 6578, 2395, 2881, 4636>>)) >>,
    << D(<<3>>, <<1415, 9264>>),
       Val(D(<<0>>, <<0000, 0001, 3589, 7932, 3846, 2642, 9649, 8004, 9291, 4538, 6775, 3876, 2612, 0483, 4927, 1567, 4077, 1937, 7646, 3044, 5262, 5852, 8947, 0570, 6778, 0448, 2870>>)) >>,
    << D(<<4>>, <<7123, 8897>>),
       Val(N(<<0>>, <<9999, 9999, 9999, 9999, 4607, 9108, 2797, 5404, 8185, 2100, 7472, 5524, 0179, 8254, 2171, 6983, 3748, 2771, 9756, 2678, 3647, 8097, 6331, 7088, 4030>>)) >>,
    << D(<<2>>, <<3561, 9448>>),
       Val(D(<<0>>, <<7071, 0678, 8393, 6237, 0305, 2361, 4574, 4272, 3343, 5387, 8285, 9543, 8809, 5073, 5581, 1057, 0753, 4455, 7247, 3824, 0949, 7571, 3802, 8048, 1347>>)) >>,
    << N(<<0>>, <<5235, 9879>>),
       Val(N(<<0>>, <<5000, 0001, 2472, 2389, 8177, 3954, 0352, 4520, 4896, 7670, 3134, 8061, 1895, 0980, 9154, 4573, 6273, 0349, 5109, 1315, 6302, 1361, 2954, 8211, 6609>>)) >>,
    << N(<<1>>, <<5707, 9634>>),
       Val(N(<<0>>, <<9999, 9999, 9999, 9999, 1281, 2622, 3516, 0581, 2538, 7837, 6987, 3495, 1968, 8243, 8663, 1270, 5038, 7077, 7429, 1136, 1006, 4319, 7895, 2582, 2852>>)) >>,
    << N(<<3>>, <<1415, 9266>>),
       Val(D(<<0>>, <<0000, 0000, 6410, 2067, 6153, 7356, 5728, 2046, 2426, 0916, 7464, 5429, 2803, 5383, 5026, 0503, 3156, 8571, 3538, 4956, 0498, 2942, 6630, 3112, 7606, 5132, 5324>>)) >>,
    << N(<<2>>, <<3561, 9450>>),
       Val(N(<<0>>, <<7071, 0677, 4251, 4880, 8204, 1579, 2756, 8060, 8397, 2457, 0472, 3631, 0261, 0332, 7888, 0935, 8611, 4053, 2957, 7382, 5281, 8498, 8700, 2782, 0259>>)) >>
>>

\* mpmath.cos at mp.dps = 100
MpCos == <<
    << D(<<0>>, <<>>),
       Val(D(<<1>>, <<>>)) >>,
    << D(<<0>>, <<0000, 0001>>),
       Val(D(<<0>>, <<9999, 9999, 9999, 9999, 5000, 0000, 0000, 0000, 0416, 6666, 6666, 6666, 6652, 7777, 7777, 7777, 7778, 0257, 9365, 0793, 6507, 9337, 5220, 4585, 5379>>)) >>,
    << D(<<0>>, <<0001>>),
       Val(D(<<0>>, <<9999, 9999, 5000, 0000, 0416, 6666, 6652, 7777, 7778, 0257, 9365, 0766, 0934, 7442, 8895, 4358, 3976, 5576, 8687, 5625, 1403, 4073, 3187, 1503, 0379>>)) >>,
    << D(<<0>>, <<7000>>),
       Val(D(<<0>>, <<7648, 4218, 7284, 4884, 2625, 5859, 9901, 9186, 4909, 2682, 1055, 0373, 7033, 5607, 2932, 4582, 5206, 5875, 0437, 1016, 3031, 2019, 0005, 2668, 3327>>)) >>,
    << D(<<1>>, <<>>),
       Val(D(<<0>>, <<5403, 0230, 5868, 1397, 1740, 0936, 6074, 4297, 6603, 7323, 1042, 0617, 9222, 2767, 0097, 2553, 8110, 0394, 7744, 7176, 4517, 9518, 5608, 7183, 0893>>)) >>,
    << D(<<2>>, <<>>),
       Val(N(<<0>>, <<4161, 4683, 6547, 1423, 8699, 7568, 2295, 0076, 2189, 7660, 0077, 1075, 5448, 9075, 5149, 9737, 8196, 4936, 1240, 7916, 9074, 5317, 7786, 0169, 1404>>)) >>,
    << D(<<1844, 6744, 0737>>, <<0955, 1615>>),
       Val(D(<<0>>, <<4258, 4900, 9968, 6757, 9381, 2344, 5563, 6322, 8142, 9515, 0843, 8060, 4761, 3294, 4580, 2482, 6423, 7346, 3134, 9626, 4143, 3777, 2915, 6109, 1547>>)) >>,
    << D(<<922, 3372, 0368>>, <<5477, 5808>>),
       Val(N(<<0>>, <<8443, 4857, 1093, 8990, 4932, 0874, 3222, 5172, 3199, 8019, 3349, 6098, 7978, 5551, 0614, 0430, 2854, 2592, 5977, 5265, 7743, 0906, 8226, 5995, 7251>>)) >>,
    << D(<<1>>, <<5707, 9632>>),
       Val(D(<<0>>, <<0000, 0000, 6794, 8966, 1923, 1321, 6393, 5231, 9743, 0056, 7163, 1878, 7258, 5228, 4922, 1339, 3902, 1067, 6547, 0339, 2914, 0668, 0542, 7925, 1408, 6551, 7575>>)) >>,
    << D(<<1>>, <<5707, 9633>>),
       Val(N(<<0>>, <<0000, 0000, 3205, 1033, 8076, 8678, 3028, 7274, 4221, 6875, 2079, 7457, 2826, 3191, 3548, 7919, 4376, 1140, 8684, 7832, 0342, 2191, 5107, 9693, 6880, 9168, 0155>>)) >>,
    << D(<<3>>, <<1415, 9265>>),
       Val(N(<<0>>, <<9999, 9999, 9999, 9999, 9355, 6692, 2525, 4394, 3595, 9101, 4795, 3665, 8916, 6087, 7760, 2872, 5722, 9833, 4771, 4858, 9889, 3837, 1088, 0136, 9252>>)) >>,
    << D(<<3>>, <<1415, 9266>>),
       Val(N(<<0>>, <<9999, 9999, 9999, 9999, 7945, 4624, 6371, 7037, 7492, 1378, 8247, 4160, 7865, 5784, 5806, 9256, 5984, 2978, 3129, 5746, 5879, 7344, 1134, 2410, 5024>>)) >>,
    << D(<<4>>, <<7123, 8898>>),
       Val(N(<<0>>, <<0000, 0000, 0384, 6898, 5769, 3965, 0749, 0976, 6189, 0394, 7732, 9804, 8735, 4618, 6003, 2147, 0617, 6673, 6541, 3993, 0099, 9246, 6341, 1109, 9622, 7074, 2663, 3000>>)) >>,
    << D(<<6>>, <<2831, 8530>>),
       Val(D(<<0>>, <<9999, 9999, 9999, 9999, 7422, 6769, 0101, 7577, 4466, 6730, 2127, 1518, 0457, 0809, 1440, 7333, 6510, 5017, 7119, 6175, 1190, 5755, 1523, 3501, 9243>>)) >>,
    << D(<<0>>, <<9999, 9999>>),
       Val(D(<<0>>, <<5403, 0231, 4282, 8495, 3846, 4786, 2403, 1585, 0040, 4650, 1374, 8895, 0378, 8387, 2591, 3248, 8706, 6524, 4294, 8743, 6255, 1156, 8508, 1884, 4226>>)) >>,
    << D(<<1>>, <<0000, 0001>>),
       Val(D(<<0>>, <<5403, 0229, 7453, 4298, 4230, 6856, 3877, 5613, 1877, 1578, 6790, 4826, 2425, 3151, 0662, 1372, 8642, 4508, 0599, 1093, 1078, 2533, 0700, 2524, 5102>>)) >>,
    << D(<<4>>, <<>>),
       Val(N(<<0>>, <<6536, 4362, 0863, 6119, 1463, 9168, 1830, 9775, 0381, 4241, 3359, 6646, 2182, 4700, 7010, 2838, 5273, 7655, 8106, 0337, 9901, 2306, 4564, 6178, 8582>>)) >>,
    << D(<<2>>, <<7182, 8183>>),
       Val(N(<<0>>, <<9117, 3391, 5419, 9604, 8363, 6549, 3174, 5668, 8645, 7289, 7203, 9893, 1922, 6181, 1624, 4116, 7865, 0280, 9622, 7366, 1100, 1069, 2769, 4927, 8264>>)) >>,
    << D(<<25>>, <<9408, 1146>>),
       Val(D(<<0>>, <<6908, 9485, 4968, 2315, 6968, 5185, 5520, 4974, 1248, 9768, 2328, 6525, 2873, 9306, 9311, 4816, 1569, 1648, 9139, 8151, 2601, 1808, 2917, 5306, 5472>>)) >>,
    << D(<<0>>, <<2500>>),
       Val(D(<<0>>, <<9689, 1242, 1710, 6447, 8414, 4595, 4494, 9418, 9199, 8041, 3419, 0287, 4428, 3114, 8128, 1242, 8894, 2561, 1845, 2332, 7264, 6552, 0279, 9685, 0255>>)) >>,
    << D(<<922, 3372, 0368>>, <<5477, 5807>>),
       Val(N(<<0>>, <<8443, 4856, 5735, 9563, 9363, 9851, 6317, 7190, 1230, 0414, 3416, 4323, 5628, 6063, 5490, 8959, 3177, 7287, 2325, 4293, 8094, 2329, 0463, 6215, 1944>>)) >>,
    << N(<<0>>, <<0000, 0001>>),
       Val(D(<<0>>, <<9999, 9999, 9999, 9999, 5000, 0000, 0000, 0000, 0416, 6666, 6666, 6666, 6652, 7777, 7777, 7777, 7778, 0257, 9365, 0793, 6507, 9337, 5220, 4585, 5379>>)) >>,
    << N(<<0>>, <<7000>>),
       Val(D(<<0>>, <<7648, 4218, 7284, 4884, 2625, 5859, 9901, 9186, 4909, 2682, 1055, 0373, 7033, 5607, 2932, 4582, 5206, 5875, 0437, 1016, 3031, 2019, 0005, 2668, 3327>>)) >>,
    << N(<<1>>, <<>>),
       Val(D(<<0>>, <<5403, 0230, 5868, 1397, 1740, 0936, 6074, 4297, 6603, 7323, 1042, 0617, 9222, 2767, 0097, 2553, 8110, 0394, 7744, 7176, 4517, 9518, 5608, 7183, 0893>>)) >>,
    << N(<<2>>, <<>>),
       Val(N(<<0>>, <<4161, 4683, 6547, 1423, 8699, 7568, 2295, 0076, 2189, 7660, 0077, 1075, 5448, 9075, 5149, 9737, 8196, 4936, 1240, 7916, 9074, 5317, 7786, 0169, 1404>>)) >>,
    << N(<<922, 3372, 0368>>, <<5477, 5808>>),
       Val(N(<<0>>, <<8443, 4857, 1093, 8990, 4932, 0874, 3222, 5172, 3199, 8019, 3349, 6098, 7978, 5551, 0614, 0430, 2854, 2592, 5977, 5265, 7743, 0906, 8226, 5995, 7251>>)) >>,
    << N(<<1>>, <<5707, 9633>>),
       Val(N(<<0>>, <<0000, 0000, 3205, 1033, 8076, 8678, 3028, 7274, 4221, 6875, 2079, 7457, 2826, 3191, 3548, 7919, 4376, 1140, 8684, 7832, 0342, 2191, 5107, 9693, 6880, 9168, 0155>>)) >>,
    << N(<<3>>, <<1415, 9265>>),
       Val(N(<<0>>, <<9999, 9999, 9999, 9999, 9355, 6692, 2525, 4394, 3595, 9101, 4795, 3665, 8916, 6087, 7760, 2872, 5722, 9833, 4771, 4858, 9889, 3837, 1088, 0136, 9252>>)) >>,
    << D(<<6>>, <<2831, 8531>>),
       Val(D(<<0>>, <<9999, 9999, 9999, 9999, 9602, 2633, 7794, 2864, 2024, 1897, 4668, 8412, 4762, 6895, 3091, 0215, 1626, 7097, 1143, 2020, 1589, 5067, 3300, 1031, 9870>>)) >>,
    << N(<<18>>, <<4200>>),
       Val(D(<<0>>, <<9091, 5078, 3386, 6766, 5670, 5391, 6148, 0431, 2763, 6977, 5079, 1461, 5369, 2030, 9389, 5297, 6498, 1008, 8207, 9966, 2584, 3644, 6129, 1553, 9892>>)) >>,
    << N(<<18>>, <<5000>>),
       Val(D(<<0>>, <<9395, 2489, 3748, 2559, 7446, 1793, 0219, 8302, 0730, 4413, 7320, 6720, 9201, 1082, 8652, 7602, 0351, 0323, 6954, 8920, 7501, 6230, 2186, 9247, 3464>>)) >>,
    << N(<<19>>, <<2000>>),
       Val(D(<<0>>, <<9392, 2034, 6696, 8705, 4576, 4109, 6944, 6472, 3458, 3716, 8509, 9557, 7623, 0920, 7427, 1539, 2675, 2621, 4514, 1268, 1586, 8691, 2390, 7489, 6344>>)) >>,
    << D(<<25>>, <<9000>>),
       Val(D(<<0>>, <<7198, 1623, 5820, 1247, 3314, 6071, 1538, 9710, 8795, 9090, 4974, 2603, 5886, 7701, 4984, 6910, 4343, 8699, 4076, 0108, 3567, 4376, 7878, 9767, 4346>>)) >>,
    << D(<<26>>, <<>>),
       Val(D(<<0>>, <<6469, 1932, 2328, 6403, 4272, 1383, 9018, 8890, 1602, 4101, 7926, 8673, 3094, 6862, 7353, 7238, 6938, 0855, 6577, 3104, 9465, 4504, 2426, 8750, 2274>>)) >>,
    << D(<<89>>, <<>>),
       Val(D(<<0>>, <<5101, 7704, 4941, 6688, 9902, 3793, 3802, 7863, 9460, 9528, 4371, 9687, 1493, 8979, 8023, 4300, 3058, 9626, 3566, 6976, 8191, 4027, 4340, 5531, 9770>>)) >>,
    << N(<<4>>, <<>>),
       Val(N(<<0>>, <<6536, 4362, 0863, 6119, 1463, 9168, 1830, 9775, 0381, 4241, 3359, 6646, 2182, 4700, 7010, 2838, 5273, 7655, 8106, 0337, 9901, 2306, 4564, 6178, 8582>>)) >>,
    << N(<<300, 0000>>, <<>>),
       Val(D(<<0>>, <<4777, 6062, 8077, 3223, 6474, 3542, 0523, 5857, 1683, 7956, 7277, 7263, 9443, 4247, 2853, 7200, 5636, 9300, 8846, 3847, 1749, 1355, 8030, 1631, 1855>>)) >>,
    << D(<<461, 1686, 0184>>, <<2738, 7903>>),
       Val(D(<<0>>, <<2789, 7261, 4804, 7388, 0599, 3353, 2943, 1327, 5832, 9398, 2977, 8677, 2610, 5074, 4494, 1346, 6210, 9954, 0641, 7307, 8307, 3493, 5532, 2779, 2512>>)) >>,
    << N(<<0>>, <<0001>>),
       Val(D(<<0>>, <<9999, 9999, 5000, 0000, 0416, 6666, 6652, 7777, 7778, 0257, 9365, 0766, 0934, 7442, 8895, 4358, 3976, 5576, 8687, 5625, 1403, 4073, 3187, 1503, 0379>>)) >>,
    << D(<<3>>, <<>>),
       Val(N(<<0>>, <<9899, 9249, 6600, 4454, 5727, 1572, 7947, 3126, 1302, 3936, 7909, 6615, 5883, 2881, 4085, 9329, 2832, 9197, 5131, 3322, 0428, 2944, 7935, 5692, 6022>>)) >>,
    << N(<<3>>, <<>>),
       Val(N(<<0>>, <<9899, 9249, 6600, 4454, 5727, 1572, 7947, 3126, 1302, 3936, 7909, 6615, 5883, 2881, 4085, 9329, 2832, 9197, 5131, 3322, 0428, 2944, 7935, 5692, 6022>>)) >>,
    << D(<<0>>, <<0000, 0000, 0000, 0000, 0000, 0001>>),
       Val(D(<<0>>, <<9999, 9999, 9999, 9999, 9999, 9999, 9999, 9999, 9999, 9999, 9999, 9999, 5000, 0000, 0000, 0000, 0000, 0000, 0000, 0000, 0000, 0000, 0000, 0000, 0417>>)) >>,
    << D(<<0>>, <<0000, 0000, 0001>>),
       Val(D(<<0>>, <<9999, 9999, 9999, 9999, 9999, 9999, 5000, 0000, 0000, 0000, 0000, 0000, 0416, 6666, 6666, 6666, 6666, 6666, 6652, 7777, 7777, 7777, 7777, 7777, 7778>>)) >>,
    << D(<<340, 2823, 6692, 0938>>, <<4634, 6337, 4607, 4317, 6821, 1455>>),
       Val(N(<<0>>, <<8410, 2430, 6137, 1366, 1786, 2248, 8008, 8198, 1867, 2365, 5400, 2764, 3726, 1446, 5977, 4695, 1636, 0469, 4026, 4603, 7877, 8930, 3359, 9459, 9532>>)) >>,
    << D(<<170, 1411, 8346, 0469>>, <<2317, 3168, 7303, 7158, 8410, 5728>>),
       Val(N(<<0>>, <<2819, 3589, 1527, 5451, 2512, 6639, 9956, 4258, 9740, 9744, 9602, 2314, 9740, 2111, 9216, 2944, 5887, 7093, 0818, 8174, 9758, 1133, 5323, 4989, 5371>>)) >>,
    << D(<<1>>, <<5707, 9632, 6794, 8966, 1923, 1321>>),
       Val(D(<<0>>, <<0000, 0000, 0000, 0000, 0000, 0000, 6916, 3975, 1442, 0985, 8469, 9687, 5529, 1048, 7472, 2961, 5390, 8203, 0879, 6172, 8117, 6495, 2804, 3983, 3642, 9128, 7503, 6331, 1553, 0114, 6598>>)) >>,
    << D(<<1>>, <<5707, 9632, 6794, 8966, 1923, 1322>>),
       Val(N(<<0>>, <<0000, 0000, 0000, 0000, 0000, 0000, 3083, 6024, 8557, 9014, 1530, 0312, 4470, 8951, 2527, 7038, 4609, 1796, 8520, 0870, 8049, 2891, 4200, 2323, 8573, 2774, 7280, 5918, 3054, 3892, 1457>>)) >>,
    << D(<<3>>, <<1415, 9265, 3589, 7932, 3846, 2643>>),
       Val(N(<<0>>, <<9999, 9999, 9999, 9999, 9999, 9999, 9999, 9999, 9999, 9999, 9999, 9999, 9265, 4841, 1334, 4213, 4685, 1895, 5531, 4280, 5803, 5664, 5096, 2693, 8842>>)) >>,
    << D(<<3>>, <<1415, 9265, 3589, 7932, 3846, 2644>>),
       Val(N(<<0>>, <<9999, 9999, 9999, 9999, 9999, 9999, 9999, 9999, 9999, 9999, 9999, 9999, 8098, 2791, 4218, 6185, 1625, 1270, 6589, 6378, 0748, 1587, 5877, 9100, 1755>>)) >>,
    << D(<<4>>, <<7123, 8898, 0384, 6898, 5769, 3965>>),
       Val(N(<<0>>, <<0000, 0000, 0000, 0000, 0000, 0000, 0749, 1925, 4326, 2957, 5409, 9062, 6587, 3146, 2416, 8884, 6172, 4609, 4292, 4341, 2294, 8523, 7968, 1012, 0230, 0115, 5194, 1074, 9735, 9150, 9411, 6000>>)) >>,
    << D(<<6>>, <<2831, 8530, 7179, 5864, 7692, 5286>>),
       Val(D(<<0>>, <<9999, 9999, 9999, 9999, 9999, 9999, 9999, 9999, 9999, 9999, 9999, 9999, 7061, 9364, 5337, 6853, 8740, 7582, 2125, 7122, 3214, 2658, 0385, 0775, 5476>>)) >>,
    << D(<<0>>, <<9999, 9999, 9999, 9999, 9999, 9999>>),
       Val(D(<<0>>, <<5403, 0230, 5868, 1397, 1740, 0937, 4489, 1396, 1411, 6288, 1707, 3119, 9737, 0681, 6162, 8080, 8546, 0724, 7015, 7078, 4833, 1462, 7501, 1861, 4884>>)) >>,
    << D(<<1>>, <<0000, 0000, 0000, 0000, 0000, 0001>>),
       Val(D(<<0>>, <<5403, 0230, 5868, 1397, 1740, 0935, 7659, 7199, 1795, 8358, 0376, 8115, 3304, 4621, 8163, 5629, 5933, 9128, 2399, 2976, 7599, 0251, 2674, 1886, 8131>>)) >>,
    << D(<<2>>, <<7182, 8182, 8459, 0452, 3536, 0287>>),
       Val(N(<<0>>, <<9117, 3391, 4786, 9650, 9789, 3717, 1241, 8257, 6862, 4397, 1675, 5325, 8948, 5295, 7401, 1123, 9075, 9765, 9688, 3439, 3195, 2587, 3133, 6526, 3127>>)) >>,
    << D(<<33>>, <<4600>>),
       Val(N(<<0>>, <<4558, 0563, 9935, 2303, 9848, 0977, 2905, 3895, 9225, 0528, 4447, 2386, 4695, 3501, 5954, 5014, 7137, 7735, 1259, 2770, 9241, 2567, 8280, 1961, 1387>>)) >>,
    << D(<<170, 1411, 8346, 0469>>, <<2317, 3168, 7303, 7158, 8410, 5727>>),
       Val(N(<<0>>, <<2819, 3589, 1527, 5451, 2512, 6640, 9550, 7583, 5500, 4532, 2523, 5162, 1170, 8328, 6994, 9421, 0225, 2244, 3419, 4775, 3163, 0230, 7993, 0107, 6648>>)) >>,
    << N(<<0>>, <<0000, 0000, 0000, 0000, 0000, 0001>>),
       Val(D(<<0>>, <<9999, 9999, 9999, 9999, 9999, 9999, 9999, 9999, 9999, 9999, 9999, 9999, 5000, 0000, 0000, 0000, 0000, 0000, 0000, 0000, 0000, 0000, 0000, 0000, 0417>>)) >>,
    << N(<<170, 1411, 8346, 0469>>, <<2317, 3168, 7303, 7158, 8410, 5728>>),
       Val(N(<<0>>, <<2819, 3589, 1527, 5451, 2512, 6639, 9956, 4258, 9740, 9744, 9602, 2314, 9740, 2111, 9216, 2944, 5887, 7093, 0818, 8174, 9758, 1133, 5323, 4989, 5371>>)) >>,
    << N(<<1>>, <<5707, 9632, 6794, 8966, 1923, 1322>>),
       Val(N(<<0>>, <<0000, 0000, 0000, 0000, 0000, 0000, 3083, 6024, 8557, 9014, 1530, 0312, 4470, 8951, 2527, 7038, 4609, 1796, 8520, 0870, 8049, 2891, 4200, 2323, 8573, 2774, 7280, 5918, 3054, 3892, 1457>>)) >>,
    << N(<<3>>, <<1415, 9265, 3589, 7932, 3846, 2643>>),
       Val(N(<<0>>, <<9999, 9999, 9999, 9999, 9999, 9999, 9999, 9999, 9999, 9999, 9999, 9999, 9265, 4841, 1334, 4213, 4685, 1895, 5531, 4280, 5803, 5664, 5096, 2693, 8842>>)) >>,
    << D(<<6>>, <<2831, 8530, 7179, 5864, 7692, 5287>>),
       Val(D(<<0>>, <<9999, 9999, 9999, 9999, 9999, 9999, 9999, 9999, 9999, 9999, 9999, 9999, 9727, 5265, 1106, 0797, 2620, 6332, 4242, 1317, 3103, 4504, 1948, 3588, 1057>>)) >>,
    << N(<<55>>, <<2600>>),
       Val(D(<<0>>, <<2784, 0068, 7224, 2502, 8812, 7412, 3039, 0053, 8876, 7698, 5986, 1061, 7915, 9006, 0215, 4805, 8483, 5120, 9415, 2287, 3946, 9594, 1642, 9623, 8761>>)) >>,
    << N(<<55>>, <<5000>>),
       Val(D(<<0>>, <<4987, 2621, 7906, 4856, 1785, 9519, 7045, 3759, 1541, 4580, 7183, 8986, 0830, 8757, 7628, 6438, 2064, 3072, 4470, 4591, 1654, 7213, 7295, 7028, 7920>>)) >>,
    << N(<<56>>, <<>>),
       Val(D(<<0>>, <<8532, 2010, 7722, 5841, 1396, 9681, 2339, 1491, 3750, 7258, 7064, 6895, 5881, 4062, 1399, 6382, 8352, 7641, 6348, 3405, 1556, 4586, 8468, 2863, 6169>>)) >>,
    << D(<<33>>, <<4000>>),
       Val(N(<<0>>, <<4016, 1271, 3012, 1274, 0917, 1395, 5864, 4288, 8492, 0027, 9316, 3421, 6093, 9044, 2689, 6097, 3303, 7293, 3324, 9279, 2898, 5974, 8991, 1906, 8281>>)) >>,
    << D(<<33>>, <<5000>>),
       Val(N(<<0>>, <<4910, 3472, 3930, 2404, 6418, 3995, 2971, 6845, 3575, 6847, 5574, 1260, 9080, 4902, 6731, 1194, 8971, 3113, 6755, 2528, 1593, 1489, 9820, 5009, 9227>>)) >>,
    << D(<<85, 0705, 9173, 0234>>, <<6158, 6584, 3651, 8579, 4205, 2863>>),
       Val(N(<<0>>, <<5991, 9283, 5601, 5510, 9504, 5066, 1870, 7777, 1980, 2538, 8157, 8051, 3300, 6175, 4788, 7548, 7762, 2335, 2927, 4085, 2609, 5002, 6865, 6080, 0911>>)) >>,
    << N(<<0>>, <<0000, 0000, 0001>>),
       Val(D(<<0>>, <<9999, 9999, 9999, 9999, 9999, 9999, 5000, 0000, 0000, 0000, 0000, 0000, 0416, 6666, 6666, 6666, 6666, 6666, 6652, 7777, 7777, 7777, 7777, 7777, 7778>>)) >>,
    << D(<<0>>, <<1000>>),
       Val(D(<<0>>, <<9950, 0416, 5278, 0257, 6609, 5561, 9878, 0387, 0294, 8385, 7622, 5415, 0840, 3595, 9352, 7446, 8526, 5910, 2182, 4046, 6529, 6636, 1852, 8262, 9279>>)) >>,
    << D(<<0>>, <<5000>>),
       Val(D(<<0>>, <<8775, 8256, 1890, 3727, 1611, 6281, 5826, 0382, 9651, 9916, 4519, 7109, 7440, 5299, 7610, 8683, 1595, 0763, 2742, 1394, 7405, 7941, 8408, 4682, 2584>>)) >>,
    << D(<<10>>, <<>>),
       Val(N(<<0>>, <<8390, 7152, 9076, 4524, 5225, 8863, 9478, 2406, 4834, 5199, 3016, 5133, 1685, 4683, 5953, 7310, 4879, 2586, 8662, 7076, 8400, 9337, 1276, 0422, 1389>>)) >>,
    << D(<<12, 3456>>, <<7890>>),
       Val(D(<<0>>, <<0516, 7253, 2714, 3997, 7004, 2785, 8744, 3845, 0575, 1040, 0909, 5942, 1584, 5439, 0155, 1423, 5920, 5508, 8328, 0878, 2173, 8442, 3689, 6443, 6549, 8000>>)) >>,
    << N(<<0>>, <<1000>>),
       Val(D(<<0>>, <<9950, 0416, 5278, 0257, 6609, 5561, 9878, 0387, 0294, 8385, 7622, 5415, 0840, 3595, 9352, 7446, 8526, 5910, 2182, 4046, 6529, 6636, 1852, 8262, 9279>>)) >>,
    << N(<<0>>, <<2500>>),
       Val(D(<<0>>, <<9689, 1242, 1710, 6447, 8414, 4595, 4494, 9418, 9199, 8041, 3419, 0287, 4428, 3114, 8128, 1242, 8894, 2561, 1845, 2332, 7264, 6552, 0279, 9685, 0255>>)) >>,
    << N(<<0>>, <<5000>>),
       Val(D(<<0>>, <<8775, 8256, 1890, 3727, 1611, 6281, 5826, 0382, 9651, 9916, 4519, 7109, 7440, 5299, 7610, 8683, 1595, 0763, 2742, 1394, 7405, 7941, 8408, 4682, 2584>>)) >>,
    << N(<<10>>, <<>>),
       Val(N(<<0>>, <<8390, 7152, 9076, 4524, 5225, 8863, 9478, 2406, 4834, 5199, 3016, 5133, 1685, 4683, 5953, 7310, 4879, 2586, 8662, 7076, 8400, 9337, 1276, 0422, 1389>>)) >>,
    << N(<<12, 3456>>, <<7890>>),
       Val(D(<<0>>, <<0516, 7253, 2714, 3997, 7004, 2785, 8744, 3845, 0575, 1040, 0909, 5942, 1584, 5439, 0155, 1423, 5920, 5508, 8328, 0878, 2173, 8442, 3689, 6443, 6549, 8000>>)) >>,
    << D(<<922, 3372, 0367>>, <<5477, 5807>>),
       Val(N(<<0>>, <<0053, 4814, 5169, 1050, 3215, 4540, 9150, 6495, 4332, 4915, 4409, 0393, 0276, 0668, 4062, 3994, 0797, 9246, 9646, 3768, 7935, 4797, 4660, 6001, 1696, 5900>>)) >>,
    << D(<<922, 3372, 0368>>, <<5477, 5806>>),
       Val(N(<<0>>, <<8443, 4856, 0378, 0136, 5352, 3972, 3676, 9644, 0599, 9195, 7643, 5321, 8638, 8274, 7295, 1931, 8421, 7252, 6068, 9218, 7024, 9106, 1628, 1392, 9737>>)) >>,
    << D(<<461, 1686, 0183>>, <<2738, 7903>>),
       Val(D(<<0>>, <<9587, 9334, 0832, 6153, 0218, 7627, 9062, 2834, 5594, 4049, 7841, 3409, 0995, 9252, 3211, 9939, 8648, 5449, 3846, 5355, 9232, 2910, 9133, 4782, 3981>>)) >>,
    << D(<<461, 1686, 0184>>, <<2738, 7902>>),
       Val(D(<<0>>, <<2789, 7262, 4407, 7293, 6888, 5911, 9574, 0418, 2436, 9270, 7440, 0897, 2092, 1382, 6661, 7509, 6943, 9469, 5029, 1079, 8850, 3815, 0815, 2192, 4494>>)) >>,
    << D(<<461, 1686, 0185>>, <<2738, 7903>>),
       Val(N(<<0>>, <<6573, 3424, 6726, 4858, 8462, 6942, 1249, 4814, 1107, 8428, 5533, 6364, 5478, 6870, 8896, 4986, 4591, 2780, 6830, 0014, 2229, 8730, 3429, 4307, 4073>>)) >>,
    << D(<<461, 1686, 0184>>, <<2738, 7904>>),
       Val(D(<<0>>, <<2789, 7260, 5201, 7482, 1520, 3533, 1507, 4848, 8862, 0944, 3472, 9078, 7338, 1321, 6497, 2318, 6185, 4216, 2899, 7430, 7645, 5626, 7977, 6756, 9920>>)) >>,
    << N(<<922, 3372, 0367>>, <<5477, 5808>>),
       Val(N(<<0>>, <<0053, 4815, 5168, 9620, 1758, 0729, 7906, 7395, 6678, 1310, 2738, 4413, 0508, 5856, 4492, 5780, 1866, 3641, 1995, 8344, 1888, 7266, 8757, 2740, 8232, 6400>>)) >>,
    << N(<<922, 3372, 0368>>, <<5477, 5807>>),
       Val(N(<<0>>, <<8443, 4856, 5735, 9563, 9363, 9851, 6317, 7190, 1230, 0414, 3416, 4323, 5628, 6063, 5490, 8959, 3177, 7287, 2325, 4293, 8094, 2329, 0463, 6215, 1944>>)) >>,
    << N(<<461, 1686, 0184>>, <<2738, 7904>>),
       Val(D(<<0>>, <<2789, 7260, 5201, 7482, 1520, 3533, 1507, 4848, 8862, 0944, 3472, 9078, 7338, 1321, 6497, 2318, 6185, 4216, 2899, 7430, 7645, 5626, 7977, 6756, 9920>>)) >>,
    << N(<<461, 1686, 0185>>, <<2738, 7904>>),
       Val(N(<<0>>, <<6573, 3425, 4262, 4774, 1279, 9316, 8475, 8841, 1938, 2984, 2452, 8822, 0073, 7504, 8419, 3973, 1845, 5853, 9416, 4654, 6658, 1183, 7181, 0452, 4369>>)) >>,
    << N(<<461, 1686, 0184>>, <<2738, 7905>>),
       Val(D(<<0>>, <<2789, 7259, 5598, 7575, 9651, 6452, 4870, 0888, 0603, 3728, 9560, 6088, 1655, 9426, 5416, 3734, 0611, 6942, 8733, 7014, 7533, 1397, 9711, 6617, 8666>>)) >>,
    << N(<<461, 1686, 0183>>, <<2738, 7904>>),
       Val(D(<<0>>, <<9587, 9333, 7991, 5709, 1149, 2424, 3652, 7739, 0321, 1104, 1886, 1764, 1423, 6720, 1873, 8067, 4145, 2653, 1060, 6376, 9282, 9059, 8850, 3310, 4663>>)) >>,
    << N(<<461, 1686, 0184>>, <<2738, 7903>>),
       Val(D(<<0>>, <<2789, 7261, 4804, 7388, 0599, 3353, 2943, 1327, 5832, 9398, 2977, 8677, 2610, 5074, 4494, 1346, 6210, 9954, 0641, 7307, 8307, 3493, 5532, 2779, 2512>>)) >>,
    << D(<<0>>, <<5235, 9878>>),
       Val(D(<<0>>, <<8660, 2540, 1583, 5880, 7491, 2667, 4672, 6014, 0504, 9062, 8004, 6681, 4328, 2155, 5531, 8713, 2368, 5321, 5934, 7514, 1188, 7488, 2317, 2262, 0434>>)) >>,
    << D(<<0>>, <<7853, 9816>>),
       Val(D(<<0>>, <<7071, 0678, 3588, 9062, 5877, 9906, 3992, 6163, 3011, 7538, 5366, 4056, 6020, 7632, 5110, 4361, 0518, 9739, 4440, 9395, 0699, 3947, 6003, 2382, 1248>>)) >>,
    << D(<<1>>, <<0471, 9755>>),
       Val(D(<<0>>, <<5000, 0000, 1036, 2840, 4592, 2791, 2537, 5773, 5082, 4923, 3762, 8769, 3631, 3079, 7855, 5786, 7387, 9184, 0984, 1847, 5493, 4848, 1049, 2956, 7387>>)) >>,
    << D(<<2>>, <<3561, 9449>>),
       Val(N(<<0>>, <<7071, 0678, 1050, 5391, 2087, 3218, 7648, 2363, 9195, 7570, 5706, 8552, 7779, 8075, 4422, 9215, 1906, 8866, 9210, 0845, 3819, 5405, 3370, 5869, 1743>>)) >>,
    << N(<<0>>, <<5235, 9878>>),
       Val(D(<<0>>, <<8660, 2540, 1583, 5880, 7491, 2667, 4672, 6014, 0504, 9062, 8004, 6681, 4328, 2155, 5531, 8713, 2368, 5321, 5934, 7514, 1188, 7488, 2317, 2262, 0434>>)) >>,
    << N(<<2>>, <<3561, 9449>>),
       Val(N(<<0>>, <<7071, 0678, 1050, 5391, 2087, 3218, 7648, 2363, 9195, 7570, 5706, 8552, 7779, 8075, 4422, 9215, 1906, 8866, 9210, 0845, 3819, 5405, 3370, 5869, 1743>>)) >>,
    << D(<<0>>, <<5235, 9879>>),
       Val(D(<<0>>, <<8660, 2539, 6583, 5879, 9349, 1547, 5620, 3333, 4878, 2275, 2381, 6508, 5293, 1432, 3059, 8702, 4833, 0353, 3342, 2366, 7193, 8527, 8555, 0107, 7444>>)) >>,
    << D(<<0>>, <<7853, 9817>>),
       Val(D(<<0>>, <<7071, 0677, 6517, 8384, 3558, 2679, 5190, 6852, 3265, 9841, 2364, 8959, 5478, 8629, 4591, 5211, 6902, 4747, 3102, 2509, 7164, 8724, 5362, 5476, 5212>>)) >>,
    << D(<<1>>, <<0471, 9756>>),
       Val(D(<<0>>, <<4999, 9999, 2376, 0299, 8906, 1393, 6156, 1501, 6559, 6603, 5220, 7882, 9996, 8680, 1562, 5130, 6874, 2863, 8459, 2844, 6116, 5222, 2617, 8771, 5720>>)) >>,
    << D(<<1>>, <<5707, 9634>>),
       Val(N(<<0>>, <<0000, 0001, 3205, 1033, 8076, 8677, 9245, 8747, 0109, 5128, 8561, 0438, 3529, 2125, 8516, 7963, 2018, 4984, 6421, 7552, 7665, 3413, 4386, 8695, 6712, 7855, 4290>>)) >>,
    << D(<<4>>, <<7123, 8899>>),
       Val(D(<<0>>, <<0000, 0000, 9615, 3101, 4230, 6034, 7769, 1812, 8595, 9290, 9493, 2659, 2174, 3378, 1369, 1863, 5851, 1193, 9036, 4568, 7670, 2953, 0365, 1153, 1454, 0486, 2550>>)) >>,
    << D(<<6>>, <<2831, 8532>>),
       Val(D(<<0>>, <<9999, 9999, 9999, 9999, 1781, 8498, 5486, 8151, 0812, 7764, 2749, 5776, 0316, 5192, 3777, 5478, 4372, 7336, 7756, 6763, 7546, 6218, 3747, 0541, 9963>>)) >>,
    << D(<<2>>, <<3561, 9450>>),
       Val(N(<<0>>, <<7071, 0678, 8121, 6068, 9874, 3438, 8734, 6864, 7553, 1925, 7657, 9431, 7619, 7849, 2077, 6851, 6812, 5742, 1556, 7153, 7924, 6367, 3439, 9443, 8407>>)) >>,
    << N(<<0>>, <<5235, 9877>>),
       Val(D(<<0>>, <<8660, 2540, 6583, 5880, 6973, 1247, 2141, 2813, 9362, 0061, 2420, 3830, 3458, 5975, 6773, 0777, 3930, 8427, 8842, 0099, 2686, 6663, 9306, 1730, 0853>>)) >>,
    << N(<<1>>, <<5707, 9632>>),
       Val(D(<<0>>, <<0000, 0000, 6794, 8966, 1923, 1321, 6393, 5231, 9743, 0056, 7163, 1878, 7258, 5228, 4922, 1339, 3902, 1067, 6547, 0339, 2914, 0668, 0542, 7925, 1408, 6551, 7575>>)) >>,
    << N(<<3>>, <<1415, 9264>>),
       Val(N(<<0>>, <<9999, 9999, 9999, 9999, 0765, 8759, 8679, 1751, 1177, 3465, 2151, 2109, 9623, 5902, 7350, 9577, 7402, 5606, 6053, 6451, 6258, 2806, 3176, 0621, 6167>>)) >>,
    << N(<<2>>, <<3561, 9448>>),
       Val(N(<<0>>, <<7071, 0677, 3979, 4712, 7229, 2320, 5511, 2471, 9340, 2553, 1195, 0759, 1398, 3747, 4529, 0707, 9398, 9240, 1024, 8707, 7767, 2363, 6281, 4505, 0884>>)) >>,
    << D(<<0>>, <<5235, 9877>>),
       Val(D(<<0>>, <<8660, 2540, 6583, 5880, 6973, 1247, 2141, 2813, 9362, 0061, 2420, 3830, 3458, 5975, 6773, 0777, 3930, 8427, 8842, 0099, 2686, 6663, 9306, 1730, 0853>>)) >>,
    << D(<<0>>, <<7853, 9815>>),
       Val(D(<<0>>, <<7071, 0679, 0659, 9740, 1126, 6454, 9205, 6411, 7468, 7885, 9674, 3745, 5687, 7670, 6752, 3608, 9127, 4901, 6790, 9957, 0207, 6030, 1633, 8903, 9081>>)) >>,
    << D(<<1>>, <<0471, 9754>>),
       Val(D(<<0>>, <<5000, 0000, 9696, 5380, 5278, 4188, 7882, 7204, 9429, 7118, 6520, 4118, 9218, 7233, 0872, 1313, 3292, 3862, 8075, 1613, 9493, 4672, 0702, 0662, 1988>>)) >>,
    << D(<<3>>, <<1415, 9264>>),
       Val(N(<<0>>, <<9999, 9999, 9999, 9999, 0765, 8759, 8679, 1751, 1177, 3465, 2151, 2109, 9623, 5902, 7350, 9577, 7402, 5606, 6053, 6451, 6258, 2806, 3176, 0621, 6167>>)) >>,
    << D(<<4>>, <<7123, 8897>>),
       Val(N(<<0>>, <<0000, 0001, 0384, 6898, 5769, 3964, 8882, 6867, 5204, 6115, 4242, 1867, 2270, 3384, 3203, 9915, 0572, 9416, 7175, 0607, 3480, 3919, 0348, 3536, 1226, 5978, 0020>>)) >>,
    << D(<<2>>, <<3561, 9448>>),
       Val(N(<<0>>, <<7071, 0677, 3979, 4712, 7229, 2320, 5511, 2471, 9340, 2553, 1195, 0759, 1398, 3747, 4529, 0707, 9398, 9240, 1024, 8707, 7767, 2363, 6281, 4505, 0884>>)) >>,
    << N(<<0>>, <<5235, 9879>>),
       Val(D(<<0>>, <<8660, 2539, 6583, 5879, 9349, 1547, 5620, 3333, 4878, 2275, 2381, 6508, 5293, 1432, 3059, 8702, 4833, 0353, 3342, 2366, 7193, 8527, 8555, 0107, 7444>>)) >>,
    << N(<<1>>, <<5707, 9634>>),
       Val(N(<<0>>, <<0000, 0001, 3205, 1033, 8076, 8677, 9245, 8747, 0109, 5128, 8561, 0438, 3529, 2125, 8516, 7963, 2018, 4984, 6421, 7552, 7665, 3413, 4386, 8695, 6712, 7855, 4290>>)) >>,
    << N(<<3>>, <<1415, 9266>>),
       Val(N(<<0>>, <<9999, 9999, 9999, 9999, 7945, 4624, 6371, 7037, 7492, 1378, 8247, 4160, 7865, 5784, 5806, 9256, 5984, 2978, 3129, 5746, 5879, 7344, 1134, 2410, 5024>>)) >>,
    << N(<<2>>, <<3561, 9450>>),
       Val(N(<<0>>, <<7071, 0678, 8121, 6068, 9874, 3438, 8734, 6864, 7553, 1925, 7657, 9431, 7619, 7849, 2077, 6851, 6812, 5742, 1556, 7153, 7924, 6367, 3439, 9443, 8407>>)) >>
>>

\* mpmath.tan at mp.dps = 100
MpTan == <<
    << D(<<0>>, <<>>),
       Val(D(<<0>>, <<>>)) >>,
    << D(<<0>>, <<0000, 0001>>),
       Val(D(<<0>>, <<0000, 0001, 0000, 0000, 0000, 0000, 3333, 3333, 3333, 3333, 4666, 6666, 6666, 6666, 7206, 3492, 0634, 9206, 3710, 7583, 7742, 5044, 1005, 7399, 3907, 3272, 4100>>)) >>,
    << D(<<0>>, <<0001>>),
       Val(D(<<0>>, <<0001, 0000, 0000, 3333, 3333, 4666, 6666, 7206, 3492, 0853, 6155, 2116, 8510, 5054, 3596, 3228, 2993, 3544, 8285, 2235, 6325, 6890, 0096, 3762, 9547, 3500>>)) >>,
    << D(<<0>>, <<7000>>),
       Val(D(<<0>>, <<8422, 8838, 0463, 0794, 4812, 8135, 0022, 1293, 7717, 1872, 2125, 0804, 1989, 9879, 6922, 5136, 6850, 2540, 6439, 0433, 1972, 4288, 0280, 1735, 4045>>)) >>,
    << D(<<1>>, <<>>),
       Val(D(<<1>>, <<5574, 0772, 4654, 9022, 3050, 6974, 8074, 5836, 0173, 0872, 5077, 2381, 5200, 3838, 3946, 6056, 9886, 1397, 1517, 2728, 9555, 0999, 6520, 2242, 9840>>)) >>,
    << D(<<2>>, <<>>),
       Val(N(<<2>>, <<1850, 3986, 3261, 5189, 9164, 3306, 1023, 1368, 2543, 4320, 1774, 6227, 6631, 6456, 2955, 8699, 6677, 3747, 2091, 9418, 2319, 7435, 4210, 4728, 5480>>)) >>,
    << D(<<1844, 6744, 0737>>, <<0955, 1615>>),
       Val(N(<<2>>, <<1246, 8321, 1688, 7239, 7371, 9123, 9073, 8731, 2841, 9590, 2748, 6829, 2495, 6961, 8602, 1302, 8191, 0864, 7486, 4230, 4687, 4955, 1762, 9952, 4820>>)) >>,
    << D(<<922, 3372, 0368>>, <<5477, 5808>>),
       Val(N(<<0>>, <<6345, 6524, 9103, 4705, 0126, 7078, 7885, 1425, 4248, 8458, 0095, 0706, 0505, 8622, 9848, 8814, 4505, 8132, 2697, 6698, 2740, 4943, 4497, 6343, 0946>>)) >>,
    << D(<<1>>, <<5707, 9632>>),
       Val(D(<<1, 4716, 9273>>, <<6530, 7374, 0645, 6736, 5439, 6121, 0013, 0297, 4842, 9127, 7402, 1928, 4833, 6978, 4337, 2477, 3468, 0401, 7673, 1887, 7110, 7557, 7710>>)) >>,
    << D(<<1>>, <<5707, 9633>>),
       Val(N(<<3, 1200, 2416>>, <<5211, 7021, 7866, 7222, 8432, 0962, 4739, 1880, 7234, 3839, 6478, 1234, 1209, 9321, 0388, 6204, 1930, 9610, 3886, 7679, 0363, 7082, 2890>>)) >>,
    << D(<<3>>, <<1415, 9265>>),
       Val(N(<<0>>, <<0000, 0000, 3589, 7932, 3846, 2643, 3986, 9959, 7940, 9649, 8061, 3647, 9425, 6733, 7473, 6500, 0403, 6804, 7902, 1908, 2851, 4811, 6670, 9391, 9421, 4796, 8258>>)) >>,
    << D(<<3>>, <<1415, 9266>>),
       Val(D(<<0>>, <<0000, 0000, 6410, 2067, 6153, 7356, 7045, 2056, 6495, 2251, 4413, 4512, 9658, 8384, 8386, 4416, 9523, 4234, 9914, 4806, 7491, 7585, 7926, 8634, 2145, 2634, 5528>>)) >>,
    << D(<<4>>, <<7123, 8898>>),
       Val(D(<<25, 9949, 6659>>, <<4506, 2883, 7148, 3219, 1971, 7988, 9826, 3072, 7976, 4029, 0060, 6514, 2955, 2779, 4278, 7936, 1149, 9552, 8391, 0942, 8228, 9178, 0500>>)) >>,
    << D(<<6>>, <<2831, 8530>>),
       Val(N(<<0>>, <<0000, 0000, 7179, 5864, 7692, 5286, 8899, 1976, 6222, 5368, 3042, 0576, 1301, 7184, 2980, 4988, 2960, 4239, 0983, 9009, 6929, 5664, 2359, 7641, 4992, 1459, 6541>>)) >>,
    << D(<<0>>, <<9999, 9999>>),
       Val(D(<<1>>, <<5574, 0769, 0399, 7145, 5585, 2314, 9963, 0763, 2052, 9694, 8632, 6396, 8695, 2162, 5764, 3685, 7726, 9691, 2657, 7042, 6438, 0806, 7127, 1248, 8550>>)) >>,
    << D(<<1>>, <<0000, 0001>>),
       Val(D(<<1>>, <<5574, 0775, 8910, 0909, 7214, 7529, 1161, 4116, 6483, 0693, 6920, 5585, 7850, 6330, 1419, 6050, 6569, 1704, 1987, 0269, 9926, 8275, 5387, 9073, 7860>>)) >>,
    << D(<<4>>, <<>>),
       Val(D(<<1>>, <<1578, 2128, 2349, 5775, 8313, 7342, 4182, 6732, 3923, 1197, 6276, 7367, 1421, 3008, 4857, 1893, 5898, 5762, 0635, 0379, 1325, 8975, 7013, 2020, 1880>>)) >>,
    << D(<<2>>, <<7182, 8183>>),
       Val(N(<<0>>, <<4505, 4953, 2216, 0468, 0074, 0144, 9699, 5839, 1408, 5662, 1891, 1019, 7259, 5302, 3670, 8673, 3560, 5024, 4226, 8101, 3520, 0053, 9363, 3765, 1985>>)) >>,
    << D(<<25>>, <<9408, 1146>>),
       Val(D(<<1>>, <<0464, 0416, 5358, 8862, 0621, 7219, 7178, 2489, 3364, 1435, 7737, 6856, 9331, 3611, 6411, 9659, 4032, 5992, 0214, 0525, 3617, 6878, 8312, 0220, 6130>>)) >>,
    << D(<<0>>, <<2500>>),
       Val(D(<<0>>, <<2553, 4192, 1221, 0362, 6650, 4482, 2364, 9047, 3678, 2042, 0163, 8800, 8226, 2174, 0475, 6502, 5888, 3198, 1346, 5425, 7949, 3165, 0263, 1055, 0454>>)) >>,
    << D(<<922, 3372, 0368>>, <<5477, 5807>>),
       Val(N(<<0>>, <<6345, 6526, 3130, 2011, 4397, 3333, 1981, 5474, 9264, 6020, 0253, 6517, 2559, 8477, 4080, 0506, 9145, 6767, 8696, 0831, 6671, 8024, 2902, 6835, 0107>>)) >>,
    << N(<<0>>, <<0000, 0001>>),
       Val(N(<<0>>, <<0000, 0001, 0000, 0000, 0000, 0000, 3333, 3333, 3333, 3333, 4666, 6666, 6666, 6666, 7206, 3492, 0634, 9206, 3710, 7583, 7742, 5044, 1005, 7399, 3907, 3272, 4100>>)) >>,
    << N(<<0>>, <<7000>>),
       Val(N(<<0>>, <<8422, 8838, 0463, 0794, 4812, 8135, 0022, 1293, 7717, 1872, 2125, 0804, 1989, 9879, 6922, 5136, 6850, 2540, 6439, 0433, 1972, 4288, 0280, 1735, 4045>>)) >>,
    << N(<<1>>, <<>>),
       Val(N(<<1>>, <<5574, 0772, 4654, 9022, 3050, 6974, 8074, 5836, 0173, 0872, 5077, 2381, 5200, 3838, 3946, 6056, 9886, 1397, 1517, 2728, 9555, 0999, 6520, 2242, 9840>>)) >>,
    << N(<<2>>, <<>>),
       Val(D(<<2>>, <<1850, 3986, 3261, 5189, 9164, 3306, 1023, 1368, 2543, 4320, 1774, 6227, 6631, 6456, 2955, 8699, 6677, 3747, 2091, 9418, 2319, 7435, 4210, 4728, 5480>>)) >>,
    << N(<<922, 3372, 0368>>, <<5477, 5808>>),
       Val(D(<<0>>, <<6345, 6524, 9103, 4705, 0126, 7078, 7885, 1425, 4248, 8458, 0095, 0706, 0505, 8622, 9848, 8814, 4505, 8132, 2697, 6698, 2740, 4943, 4497, 6343, 0946>>)) >>,
    << N(<<1>>, <<5707, 9633>>),
       Val(D(<<3, 1200, 2416>>, <<5211, 7021, 7866, 7222, 8432, 0962, 4739, 1880, 7234, 3839, 6478, 1234, 1209, 9321, 0388, 6204, 1930, 9610, 3886, 7679, 0363, 7082, 2890>>)) >>,
    << N(<<3>>, <<1415, 9265>>),
       Val(D(<<0>>, <<0000, 0000, 3589, 7932, 3846, 2643, 3986, 9959, 7940, 9649, 8061, 3647, 9425, 6733, 7473, 6500, 0403, 6804, 7902, 1908, 2851, 4811, 6670, 9391, 9421, 4796, 8258>>)) >>,
    << D(<<6>>, <<2831, 8531>>),
       Val(D(<<0>>, <<0000, 0000, 2820, 4135, 2307, 4713, 2409, 1953, 9214, 7523, 4170, 4914, 5489, 0913, 1602, 1552, 5377, 0026, 5859, 7108, 0975, 4949, 3965, 1604, 1767, 8622, 4725>>)) >>,
    << N(<<18>>, <<4200>>),
       Val(D(<<0>>, <<4580, 8364, 9969, 4982, 8009, 5735, 6642, 1972, 7514, 4085, 4574, 6809, 3769, 3622, 7583, 2400, 7878, 0114, 3936, 7522, 5803, 9128, 8673, 6091, 4285>>)) >>,
    << N(<<18>>, <<5000>>),
       Val(D(<<0>>, <<3645, 2532, 6309, 6396, 7850, 8545, 2917, 9733, 9638, 8961, 4782, 5258, 5933, 8137, 5685, 7554, 5660, 6231, 6854, 5511, 0460, 6546, 4703, 8789, 8521>>)) >>,
    << N(<<19>>, <<2000>>),
       Val(N(<<0>>, <<3655, 3182, 6506, 2027, 1944, 2400, 6869, 9193, 3432, 7736, 8444, 0075, 2174, 9799, 8152, 8318, 8995, 5812, 6177, 0313, 2302, 0748, 2342, 9897, 3348>>)) >>,
    << D(<<25>>, <<9000>>),
       Val(D(<<0>>, <<9643, 6372, 7446, 8315, 5712, 6662, 5168, 3904, 3273, 7648, 5945, 1006, 7039, 8187, 4739, 6858, 3613, 1439, 7977, 5474, 0862, 1959, 9879, 8442, 0979>>)) >>,
    << D(<<26>>, <<>>),
       Val(D(<<1>>, <<1787, 5355, 4206, 2797, 8318, 0478, 4591, 2648, 0832, 9473, 4336, 4078, 7748, 0313, 3768, 6751, 6061, 9194, 8750, 5197, 4565, 7099, 6324, 8539, 5880>>)) >>,
    << D(<<89>>, <<>>),
       Val(D(<<1>>, <<6858, 2537, 0506, 0157, 6312, 0199, 8190, 3728, 6993, 9774, 2414, 1949, 6575, 3415, 3031, 6636, 0655, 8912, 7218, 9522, 4735, 9125, 0279, 5746, 1830>>)) >>,
    << N(<<4>>, <<>>),
       Val(N(<<1>>, <<1578, 2128, 2349, 5775, 8313, 7342, 4182, 6732, 3923, 1197, 6276, 7367, 1421, 3008, 4857, 1893, 5898, 5762, 0635, 0379, 1325, 8975, 7013, 2020, 1880>>)) >>,
    << N(<<300, 0000>>, <<>>),
       Val(D(<<1>>, <<8387, 6612, 3696, 9282, 0740, 1800, 1637, 1914, 1563, 2310, 3833, 8291, 3870, 7023, 5955, 2927, 2251, 3823, 3536, 8674, 2218, 2095, 7952, 9828, 7040>>)) >>,
    << D(<<461, 1686, 0184>>, <<2738, 7903>>),
       Val(D(<<3>>, <<4422, 6998, 1791, 0826, 2320, 1326, 6983, 1804, 7023, 7024, 2354, 3764, 1348, 3520, 7880, 1434, 5545, 5053, 0446, 0374, 1726, 8780, 3561, 1944, 1230>>)) >>,
    << N(<<0>>, <<0001>>),
       Val(N(<<0>>, <<0001, 0000, 0000, 3333, 3333, 4666, 6666, 7206, 3492, 0853, 6155, 2116, 8510, 5054, 3596, 3228, 2993, 3544, 8285, 2235, 6325, 6890, 0096, 3762, 9547, 3500>>)) >>,
    << D(<<3>>, <<>>),
       Val(N(<<0>>, <<1425, 4654, 3074, 2778, 0529, 5635, 4105, 3391, 3493, 2260, 9228, 4901, 8046, 4763, 3238, 9766, 8885, 8595, 2215, 3853, 8059, 1060, 5834, 7766, 9114>>)) >>,
    << N(<<3>>, <<>>),
       Val(D(<<0>>, <<1425, 4654, 3074, 2778, 0529, 5635, 4105, 3391, 3493, 2260, 9228, 4901, 8046, 4763, 3238, 9766, 8885, 8595, 2215, 3853, 8059, 1060, 5834, 7766, 9114>>)) >>,
    << D(<<0>>, <<0000, 0000, 0000, 0000, 0000, 0001>>),
       Val(D(<<0>>, <<0000, 0000, 0000, 0000, 0000, 0001, 0000, 0000, 0000, 0000, 0000, 0000, 0000, 0000, 0000, 0000, 0000, 0000, 3333, 3333, 3333, 3333, 3333, 3333, 3333, 3333, 3333, 3333, 3333, 3333, 4670>>)) >>,
    << D(<<0>>, <<0000, 0000, 0001>>),
       Val(D(<<0>>, <<0000, 0000, 0001, 0000, 0000, 0000, 0000, 0000, 0000, 3333, 3333, 3333, 3333, 3333, 3333, 4666, 6666, 6666, 6666, 6666, 6666, 7206, 3492, 0634, 9206, 3492, 0634, 9430>>)) >>,
    << D(<<340, 2823, 6692, 0938>>, <<4634, 6337, 4607, 4317, 6821, 1455>>),
       Val(N(<<0>>, <<6432, 6004, 7374, 3209, 1587, 9933, 3026, 4565, 8962, 9502, 5864, 5321, 4310, 3665, 5832, 5588, 7464, 7950, 0309, 0644, 5022, 5020, 8281, 9424, 8239>>)) >>,
    << D(<<170, 1411, 8346, 0469>>, <<2317, 3168, 7303, 7158, 8410, 5728>>),
       Val(D(<<3>>, <<4030, 1917, 7732, 9710, 4371, 6287, 7014, 1816, 1429, 3922, 9943, 2479, 0993, 5613, 2060, 5013, 7839, 5546, 7834, 1576, 7184, 7617, 6909, 2812, 4960>>)) >>,
    << D(<<1>>, <<5707, 9632, 6794, 8966, 1923, 1321>>),
       Val(D(<<1, 4458, 3939, 5313, 7555, 4154, 4541>>, <<1710, 4721, 5636, 6489, 2497, 1286, 5832, 1618, 6210, 3983, 6616, 1239, 8686, 7163, 9849, 4818, 1101, 0767, 5700>>)) >>,
    << D(<<1>>, <<5707, 9632, 6794, 8966, 1923, 1322>>),
       Val(N(<<3, 2429, 6015, 6753, 8885, 1932, 8478>>, <<7078, 8402, 4922, 0304, 3983, 7778, 1308, 9321, 6791, 4773, 3553, 0917, 9093, 1239, 0659, 6121, 0849, 1255, 5300>>)) >>,
    << D(<<3>>, <<1415, 9265, 3589, 7932, 3846, 2643>>),
       Val(N(<<0>>, <<0000, 0000, 0000, 0000, 0000, 0000, 3832, 7950, 2884, 1971, 6939, 9375, 1058, 2097, 4944, 5923, 0781, 6406, 3049, 7732, 4221, 2331, 7034, 6402, 4503, 1003, 6049, 6969, 5305, 3637, 4568>>)) >>,
    << D(<<3>>, <<1415, 9265, 3589, 7932, 3846, 2644>>),
       Val(D(<<0>>, <<0000, 0000, 0000, 0000, 0000, 0000, 6167, 2049, 7115, 8028, 3060, 0624, 8941, 7902, 5055, 4076, 9218, 3593, 7919, 7968, 3559, 0602, 9988, 3764, 6709, 1671, 0731, 9111, 7053, 7901, 8368>>)) >>,
    << D(<<4>>, <<7123, 8898, 0384, 6898, 5769, 3965>>),
       Val(D(<<13, 3477, 0359, 0918, 0434, 6197, 3479>>, <<4835, 8860, 6072, 7806, 8828, 4344, 7289, 0587, 0377, 3677, 6131, 4544, 3935, 4457, 0499, 3787, 0117, 0023, 0400>>)) >>,
    << D(<<6>>, <<2831, 8530, 7179, 5864, 7692, 5286>>),
       Val(N(<<0>>, <<0000, 0000, 0000, 0000, 0000, 0000, 7665, 5900, 5768, 3943, 3879, 8750, 2116, 4194, 9889, 1846, 1563, 2812, 7225, 6460, 2001, 6564, 1071, 8517, 1945, 8739, 9878, 4959, 3058, 9217, 1175>>)) >>,
    << D(<<0>>, <<9999, 9999, 9999, 9999, 9999, 9999>>),
       Val(D(<<1>>, <<5574, 0772, 4654, 9022, 3050, 6971, 3819, 3953, 9358, 3274, 8983, 0707, 9214, 2671, 9786, 2106, 9271, 9502, 9300, 6901, 6293, 8120, 8967, 1537, 7370>>)) >>,
    << D(<<1>>, <<0000, 0000, 0000, 0000, 0000, 0001>>),
       Val(D(<<1>>, <<5574, 0772, 4654, 9022, 3050, 6978, 2329, 7718, 0987, 8470, 1171, 4065, 7885, 0899, 3082, 3181, 8758, 3636, 6006, 0070, 9082, 6189, 4127, 0714, 4890>>)) >>,
    << D(<<2>>, <<7182, 8182, 8459, 0452, 3536, 0287>>),
       Val(N(<<0>>, <<4505, 4953, 4069, 8074, 9571, 0634, 7447, 3612, 0202, 9395, 0440, 2458, 4877, 2071, 6271, 3471, 4874, 7361, 2730, 5138, 7687, 4853, 4117, 6497, 8658>>)) >>,
    << D(<<33>>, <<4600>>),
       Val(N(<<1>>, <<9527, 6068, 3006, 5834, 4381, 6557, 6111, 1739, 0193, 6846, 6080, 6975, 5140, 0533, 8497, 1035, 9046, 5311, 5589, 3686, 6186, 7441, 0051, 2195, 3380>>)) >>,
    << D(<<170, 1411, 8346, 0469>>, <<2317, 3168, 7303, 7158, 8410, 5727>>),
       Val(D(<<3>>, <<4030, 1917, 7732, 9710, 4371, 6275, 1208, 7863, 7411, 0059, 3399, 0810, 5698, 9634, 7505, 3798, 6037, 7640, 4284, 0326, 4419, 4742, 9437, 0508, 3290>>)) >>,
    << N(<<0>>, <<0000, 0000, 0000, 0000, 0000, 0001>>),
       Val(N(<<0>>, <<0000, 0000, 0000, 0000, 0000, 0001, 0000, 0000, 0000, 0000, 0000, 0000, 0000, 0000, 0000, 0000, 0000, 0000, 3333, 3333, 3333, 3333, 3333, 3333, 3333, 3333, 3333, 3333, 3333, 3333, 4670>>)) >>,
    << N(<<170, 1411, 8346, 0469>>, <<2317, 3168, 7303, 7158, 8410, 5728>>),
       Val(N(<<3>>, <<4030, 1917, 7732, 9710, 4371, 6287, 7014, 1816, 1429, 3922, 9943, 2479, 0993, 5613, 2060, 5013, 7839, 5546, 7834, 1576, 7184, 7617, 6909, 2812, 4960>>)) >>,
    << N(<<1>>, <<5707, 9632, 6794, 8966, 1923, 1322>>),
       Val(D(<<3, 2429, 6015, 6753, 8885, 1932, 8478>>, <<7078, 8402, 4922, 0304, 3983, 7778, 1308, 9321, 6791, 4773, 3553, 0917, 9093, 1239, 0659, 6121, 0849, 1255, 5300>>)) >>,
    << N(<<3>>, <<1415, 9265, 3589, 7932, 3846, 2643>>),
       Val(D(<<0>>, <<0000, 0000, 0000, 0000, 0000, 0000, 3832, 7950, 2884, 1971, 6939, 9375, 1058, 2097, 4944, 5923, 0781, 6406, 3049, 7732, 4221, 2331, 7034, 6402, 4503, 1003, 6049, 6969, 5305, 3637, 4568>>)) >>,
    << D(<<6>>, <<2831, 8530, 7179, 5864, 7692, 5287>>),
       Val(D(<<0>>, <<0000, 0000, 0000, 0000, 0000, 0000, 2334, 4099, 4231, 6056, 6120, 1249, 7883, 5805, 0110, 8153, 8436, 7187, 4318, 2243, 4887, 9118, 0900, 0901, 5019, 6153, 7137, 1211, 7940, 9752, 6124>>)) >>,
    << N(<<55>>, <<2600>>),
       Val(D(<<3>>, <<4499, 3768, 1500, 2141, 3227, 9234, 7207, 7284, 0170, 4898, 3031, 3410, 7123, 2033, 5862, 4841, 0550, 2746, 9178, 6762, 0190, 6209, 4387, 8196, 6110>>)) >>,
    << N(<<55>>, <<5000>>),
       Val(D(<<1>>, <<7379, 4667, 9240, 5172, 0334, 7452, 7946, 4066, 6115, 1002, 6366, 2231, 0532, 7806, 7580, 3703, 2633, 1027, 6868, 6539, 6452, 4083, 1889, 2968, 4350>>)) >>,
    << N(<<56>>, <<>>),
       Val(D(<<0>>, <<6112, 7368, 8191, 7097, 4344, 1880, 9803, 8661, 6762, 3865, 1987, 0803, 8865, 4204, 2365, 1490, 1654, 5381, 7689, 6291, 8987, 5813, 5950, 2756, 5166>>)) >>,
    << D(<<33>>, <<4000>>),
       Val(N(<<2>>, <<2803, 3021, 1716, 0916, 5133, 0367, 2095, 9956, 8972, 0336, 4778, 4125, 9309, 8635, 0158, 1012, 1956, 7157, 7330, 3220, 3327, 5895, 8994, 5471, 7910>>)) >>,
    << D(<<33>>, <<5000>>),
       Val(N(<<1>>, <<7740, 9042, 1134, 7302, 8498, 6547, 7399, 4242, 6602, 0211, 4717, 8735, 3414, 0478, 6736, 4230, 3341, 3356, 3677, 1781, 9927, 1010, 5419, 6964, 6130>>)) >>,
    << D(<<85, 0705, 9173, 0234>>, <<6158, 6584, 3651, 8579, 4205, 2863>>),
       Val(N(<<1>>, <<3361, 3870, 1877, 8739, 5440, 1414, 9207, 7103, 9048, 7111, 1811, 7892, 5987, 7291, 1851, 6598, 9671, 8595, 8597, 2378, 4987, 5837, 4577, 1615, 1200>>)) >>,
    << N(<<0>>, <<0000, 0000, 0001>>),
       Val(N(<<0>>, <<0000, 0000, 0001, 0000, 0000, 0000, 0000, 0000, 0000, 3333, 3333, 3333, 3333, 3333, 3333, 4666, 6666, 6666, 6666, 6666, 6666, 7206, 3492, 0634, 9206, 3492, 0634, 9430>>)) >>,
    << D(<<0>>, <<1000>>),
       Val(D(<<0>>, <<1003, 3467, 2085, 4505, 4505, 8080, 0457, 8111, 1536, 8190, 0480, 4576, 4420, 4002, 2208, 0657, 9803, 2112, 8856, 7387, 0347, 9304, 8034, 8730, 9146>>)) >>,
    << D(<<0>>, <<5000>>),
       Val(D(<<0>>, <<5463, 0248, 9843, 7905, 1325, 5179, 4657, 8028, 5383, 2975, 5172, 0179, 7912, 4616, 4091, 3859, 3290, 7510, 5180, 2581, 5715, 1806, 4827, 0656, 2186>>)) >>,
    << D(<<10>>, <<>>),
       Val(D(<<0>>, <<6483, 6082, 7459, 0866, 7125, 9124, 9330, 0980, 8676, 8168, 7434, 2983, 7249, 7563, 3627, 9673, 9585, 5600, 3746, 2390, 0871, 7172, 0629, 7152, 2862>>)) >>,
    << D(<<12, 3456>>, <<7890>>),
       Val(N(<<19>>, <<3267, 8794, 4829, 0676, 8369, 7538, 9115, 6663, 5750, 0591, 8568, 6418, 0743, 4691, 6374, 3115, 6417, 1734, 1413, 8514, 1375, 9683, 3454, 8529, 9000>>)) >>,
    << N(<<0>>, <<1000>>),
       Val(N(<<0>>, <<1003, 3467, 2085, 4505, 4505, 8080, 0457, 8111, 1536, 8190, 0480, 4576, 4420, 4002, 2208, 0657, 9803, 2112, 8856, 7387, 0347, 9304, 8034, 8730, 9146>>)) >>,
    << N(<<0>>, <<2500>>),
       Val(N(<<0>>, <<2553, 4192, 1221, 0362, 6650, 4482, 2364, 9047, 3678, 2042, 0163, 8800, 8226, 2174, 0475, 6502, 5888, 3198, 1346, 5425, 7949, 3165, 0263, 1055, 0454>>)) >>,
    << N(<<0>>, <<5000>>),
       Val(N(<<0>>, <<5463, 0248, 9843, 7905, 1325, 5179, 4657, 8028, 5383, 2975, 5172, 0179, 7912, 4616, 4091, 3859, 3290, 7510, 5180, 2581, 5715, 1806, 4827, 0656, 2186>>)) >>,
    << N(<<10>>, <<>>),
       Val(N(<<0>>, <<6483, 6082, 7459, 0866, 7125, 9124, 9330, 0980, 8676, 8168, 7434, 2983, 7249, 7563, 3627, 9673, 9585, 5600, 3746, 2390, 0871, 7172, 0629, 7152, 2862>>)) >>,
    << N(<<12, 3456>>, <<7890>>),
       Val(D(<<19>>, <<3267, 8794, 4829, 0676, 8369, 7538, 9115, 6663, 5750, 0591, 8568, 6418, 0743, 4691, 6374, 3115, 6417, 1734, 1413, 8514, 1375, 9683, 3454, 8529, 9000>>)) >>,
    << D(<<922, 3372, 0367>>, <<5477, 5807>>),
       Val(N(<<186>>, <<9780, 3947, 9189, 9344, 0742, 8967, 3133, 0103, 8944, 2213, 0645, 2035, 3524, 1298, 1099, 1722, 3131, 1829, 0901, 3441, 5490, 0186, 3965, 4694, 3000>>)) >>,
    << D(<<922, 3372, 0368>>, <<5477, 5806>>),
       Val(N(<<0>>, <<6345, 6527, 7156, 9319, 6469, 7109, 1603, 3959, 9013, 7330, 4631, 9581, 1948, 8515, 0423, 9747, 2486, 4093, 8762, 2705, 9399, 2014, 3815, 6920, 4293>>)) >>,
    << D(<<461, 1686, 0183>>, <<2738, 7903>>),
       Val(D(<<0>>, <<2963, 1456, 7671, 9423, 3051, 5481, 4473, 0294, 4850, 1624, 9309, 7030, 4237, 6948, 1790, 0646, 1076, 2341, 3679, 5214, 2974, 9475, 7564, 5594, 4285>>)) >>,
    << D(<<461, 1686, 0184>>, <<2738, 7902>>),
       Val(D(<<3>>, <<4422, 6985, 3298, 8607, 7085, 0701, 2321, 2001, 0379, 4094, 7493, 3430, 4399, 0692, 5453, 4427, 5440, 7092, 9625, 1345, 8770, 4530, 3031, 5044, 9140>>)) >>,
    << D(<<461, 1686, 0185>>, <<2738, 7903>>),
       Val(N(<<1>>, <<1464, 4742, 7403, 6695, 2520, 0434, 4038, 3844, 1828, 8394, 8152, 4641, 7258, 3381, 6865, 6670, 3225, 3739, 7846, 6722, 3521, 0037, 4988, 3842, 8350>>)) >>,
    << D(<<461, 1686, 0184>>, <<2738, 7904>>),
       Val(D(<<3>>, <<4422, 7011, 0283, 3133, 2165, 0620, 1908, 5011, 2685, 0817, 8340, 2477, 5304, 1150, 5970, 9590, 4648, 2126, 0587, 6507, 9134, 0714, 1629, 6722, 3940>>)) >>,
    << N(<<922, 3372, 0367>>, <<5477, 5808>>),
       Val(D(<<186>>, <<9776, 8986, 1971, 1670, 1365, 3079, 7570, 2077, 7051, 6731, 9841, 3848, 6558, 6249, 0351, 1964, 9054, 5364, 4609, 1224, 0757, 1672, 9765, 6007, 8000>>)) >>,
    << N(<<922, 3372, 0368>>, <<5477, 5807>>),
       Val(D(<<0>>, <<6345, 6526, 3130, 2011, 4397, 3333, 1981, 5474, 9264, 6020, 0253, 6517, 2559, 8477, 4080, 0506, 9145, 6767, 8696, 0831, 6671, 8024, 2902, 6835, 0107>>)) >>,
    << N(<<461, 1686, 0184>>, <<2738, 7904>>),
       Val(N(<<3>>, <<4422, 7011, 0283, 3133, 2165, 0620, 1908, 5011, 2685, 0817, 8340, 2477, 5304, 1150, 5970, 9590, 4648, 2126, 0587, 6507, 9134, 0714, 1629, 6722, 3940>>)) >>,
    << N(<<461, 1686, 0185>>, <<2738, 7904>>),
       Val(D(<<1>>, <<1464, 4740, 4260, 2527, 5252, 2618, 7739, 4890, 8475, 9982, 7172, 4876, 0887, 7383, 7002, 6868, 8999, 9971, 9250, 9824, 6107, 5916, 4621, 1500, 8610>>)) >>,
    << N(<<461, 1686, 0184>>, <<2738, 7905>>),
       Val(N(<<3>>, <<4422, 7023, 8775, 5528, 6619, 9520, 9280, 2491, 9797, 0802, 7830, 2023, 6748, 8380, 6967, 4971, 8835, 2524, 4496, 1370, 2150, 9034, 5650, 8227, 5550>>)) >>,
    << N(<<461, 1686, 0183>>, <<2738, 7904>>),
       Val(N(<<0>>, <<2963, 1457, 8549, 9655, 9289, 4750, 3199, 0454, 8136, 1353, 5165, 0154, 6193, 2969, 4398, 0900, 7803, 1382, 3338, 5984, 6328, 4953, 3669, 0134, 3527>>)) >>,
    << N(<<461, 1686, 0184>>, <<2738, 7903>>),
       Val(N(<<3>>, <<4422, 6998, 1791, 0826, 2320, 1326, 6983, 1804, 7023, 7024, 2354, 3764, 1348, 3520, 7880, 1434, 5545, 5053, 0446, 0374, 1726, 8780, 3561, 1944, 1230>>)) >>,
    << D(<<0>>, <<5235, 9878>>),
       Val(D(<<0>>, <<5773, 5027, 5058, 5606, 1532, 1200, 2393, 5435, 3959, 3801, 8557, 8558, 9578, 9323, 9787, 5916, 4985, 0343, 4963, 2190, 5406, 3182, 5425, 7537, 4648>>)) >>,
    << D(<<0>>, <<7853, 9816>>),
       Val(D(<<0>>, <<9999, 9999, 3205, 1034, 0385, 3988, 2368, 0600, 8164, 7762, 6559, 4962, 4059, 2087, 4949, 3330, 9672, 0170, 1298, 2051, 5484, 8782, 0626, 5979, 5904>>)) >>,
    << D(<<1>>, <<0471, 9755>>),
       Val(D(<<1>>, <<7320, 5080, 2782, 4863, 1883, 0709, 7075, 2956, 4349, 8877, 1934, 6729, 4054, 5184, 2107, 9919, 8461, 4360, 3739, 3538, 4707, 3593, 2477, 9206, 6460>>)) >>,
    << D(<<2>>, <<3561, 9449>>),
       Val(N(<<1>>, <<0000, 0000, 0384, 6898, 5776, 7958, 2182, 4453, 2150, 9873, 4612, 1226, 3033, 2211, 5901, 9413, 2530, 7064, 1836, 4605, 7706, 2934, 2037, 8913, 8030>>)) >>,
    << N(<<0>>, <<5235, 9878>>),
       Val(N(<<0>>, <<5773, 5027, 5058, 5606, 1532, 1200, 2393, 5435, 3959, 3801, 8557, 8558, 9578, 9323, 9787, 5916, 4985, 0343, 4963, 2190, 5406, 3182, 5425, 7537, 4648>>)) >>,
    << N(<<2>>, <<3561, 9449>>),
       Val(D(<<1>>, <<0000, 0000, 0384, 6898, 5776, 7958, 2182, 4453, 2150, 9873, 4612, 1226, 3033, 2211, 5901, 9413, 2530, 7064, 1836, 4605, 7706, 2934, 2037, 8913, 8030>>)) >>,
    << D(<<0>>, <<5235, 9879>>),
       Val(D(<<0>>, <<5773, 5028, 8391, 8940, 9340, 3194, 1912, 1191, 9049, 9994, 2904, 3788, 7292, 0670, 8554, 1650, 1779, 5813, 1714, 2276, 3903, 3966, 0138, 6694, 7901>>)) >>,
    << D(<<0>>, <<7853, 9817>>),
       Val(D(<<1>>, <<0000, 0001, 3205, 1034, 6795, 6056, 7243, 0000, 0517, 5335, 8623, 8528, 3536, 6072, 5029, 2842, 2520, 1536, 6660, 3443, 6219, 4541, 3787, 2533, 0690>>)) >>,
    << D(<<1>>, <<0471, 9756>>),
       Val(D(<<1>>, <<7320, 5084, 2782, 4868, 4584, 5594, 4498, 4100, 2159, 7557, 3083, 1069, 3299, 0988, 6146, 3343, 4843, 7280, 1111, 7790, 0738, 0669, 7253, 7880, 1010>>)) >>,
    << D(<<1>>, <<5707, 9634>>),
       Val(N(<<7572, 8297>>, <<7016, 5640, 6275, 1601, 8905, 4491, 5475, 8716, 6847, 5420, 7084, 7011, 8139, 3929, 1018, 9574, 5954, 0068, 6000, 4784, 9969, 6455, 7013>>)) >>,
    << D(<<4>>, <<7123, 8899>>),
       Val(N(<<1, 0400, 0805>>, <<5070, 5673, 6439, 9266, 4520, 1495, 6421, 4158, 8275, 6773, 2735, 5141, 7692, 4383, 7975, 2700, 2167, 5425, 7108, 1240, 1852, 3218, 1560>>)) >>,
    << D(<<6>>, <<2831, 8532>>),
       Val(D(<<0>>, <<0000, 0001, 2820, 4135, 2307, 4713, 9358, 4154, 9266, 9842, 0410, 6953, 7018, 2476, 2273, 8349, 0087, 1643, 8132, 2023, 3333, 9256, 0891, 2984, 4199, 7243, 8050>>)) >>,
    << D(<<2>>, <<3561, 9450>>),
       Val(N(<<0>>, <<9999, 9998, 0384, 6900, 5007, 4158, 5486, 1481, 2173, 0477, 8532, 8746, 5817, 6030, 3881, 4148, 1223, 6560, 5434, 5312, 1400, 8228, 7995, 8256, 1552>>)) >>,
    << N(<<0>>, <<5235, 9877>>),
       Val(N(<<0>>, <<5773, 5026, 1725, 2272, 9119, 9280, 4189, 7096, 0390, 5843, 0470, 0838, 8279, 3115, 1661, 9802, 6283, 7439, 2824, 7748, 5264, 4240, 3768, 6968, 1500>>)) >>,
    << N(<<1>>, <<5707, 9632>>),
       Val(N(<<1, 4716, 9273>>, <<6530, 7374, 0645, 6736, 5439, 6121, 0013, 0297, 4842, 9127, 7402, 1928, 4833, 6978, 4337, 2477, 3468, 0401, 7673, 1887, 7110, 7557, 7710>>)) >>,
    << N(<<3>>, <<1415, 9264>>),
       Val(D(<<0>>, <<0000, 0001, 3589, 7932, 3846, 2644, 2198, 7841, 0069, 6838, 4221, 7695, 3194, 4078, 9160, 1973, 1762, 9292, 4584, 7896, 6782, 2829, 0523, 4524, 4946, 8352, 8030>>)) >>,
    << N(<<2>>, <<3561, 9448>>),
       Val(D(<<1>>, <<0000, 0002, 0384, 6900, 6546, 1758, 1956, 2620, 5098, 7520, 0225, 6283, 8774, 0335, 5076, 1992, 3344, 5168, 3215, 0681, 1026, 7620, 3327, 8967, 0880>>)) >>,
    << D(<<0>>, <<5235, 9877>>),
       Val(D(<<0>>, <<5773, 5026, 1725, 2272, 9119, 9280, 4189, 7096, 0390, 5843, 0470, 0838, 8279, 3115, 1661, 9802, 6283, 7439, 2824, 7748, 5264, 4240, 3768, 6968, 1500>>)) >>,
    << D(<<0>>, <<7853, 9815>>),
       Val(D(<<0>>, <<9999, 9997, 3205, 1037, 3975, 1914, 3133, 9483, 3264, 2465, 4013, 0030, 5706, 1201, 0030, 4817, 9454, 2176, 3177, 0941, 4593, 0814, 0126, 4620, 3164>>)) >>,
    << D(<<1>>, <<0471, 9754>>),
       Val(D(<<1>>, <<7320, 5076, 2782, 4871, 7745, 6461, 4475, 3854, 3845, 0254, 3165, 6506, 0412, 3192, 0694, 6184, 2207, 6279, 9640, 0044, 6782, 6814, 2927, 7050, 6000>>)) >>,
    << D(<<3>>, <<1415, 9264>>),
       Val(N(<<0>>, <<0000, 0001, 3589, 7932, 3846, 2644, 2198, 7841, 0069, 6838, 4221, 7695, 3194, 4078, 9160, 1973, 1762, 9292, 4584, 7896, 6782, 2829, 0523, 4524, 4946, 8352, 8030>>)) >>,
    << D(<<4>>, <<7123, 8897>>),
       Val(D(<<9629, 5605>>, <<7141, 2779, 7164, 7891, 4401, 6172, 8914, 5204, 0385, 2188, 1358, 5260, 1944, 1503, 3077, 7075, 7327, 1208, 4649, 2021, 4992, 7531, 0544>>)) >>,
    << D(<<2>>, <<3561, 9448>>),
       Val(N(<<1>>, <<0000, 0002, 0384, 6900, 6546, 1758, 1956, 2620, 5098, 7520, 0225, 6283, 8774, 0335, 5076, 1992, 3344, 5168, 3215, 0681, 1026, 7620, 3327, 8967, 0880>>)) >>,
    << N(<<0>>, <<5235, 9879>>),
       Val(N(<<0>>, <<5773, 5028, 8391, 8940, 9340, 3194, 1912, 1191, 9049, 9994, 2904, 3788, 7292, 0670, 8554, 1650, 1779, 5813, 1714, 2276, 3903, 3966, 0138, 6694, 7901>>)) >>,
    << N(<<1>>, <<5707, 9634>>),
       Val(D(<<7572, 8297>>, <<7016, 5640, 6275, 1601, 8905, 4491, 5475, 8716, 6847, 5420, 7084, 7011, 8139, 3929, 1018, 9574, 5954, 0068, 6000, 4784, 9969, 6455, 7013>>)) >>,
    << N(<<3>>, <<1415, 9266>>),
       Val(N(<<0>>, <<0000, 0000, 6410, 2067, 6153, 7356, 7045, 2056, 6495, 2251, 4413, 4512, 9658, 8384, 8386, 4416, 9523, 4234, 9914, 4806, 7491, 7585, 7926, 8634, 2145, 2634, 5528>>)) >>,
    << N(<<2>>, <<3561, 9450>>),
       Val(D(<<0>>, <<9999, 9998, 0384, 6900, 5007, 4158, 5486, 1481, 2173, 0477, 8532, 8746, 5817, 6030, 3881, 4148, 1223, 6560, 5434, 5312, 1400, 8228, 7995, 8256, 1552>>)) >>
>>

\* mpmath.asin at mp.dps = 100
MpAsin == <<
    << D(<<0>>, <<>>),
       Val(D(<<0>>, <<>>)) >>,
    << D(<<0>>, <<1000>>),
       Val(D(<<0>>, <<1001, 6742, 1161, 5597, 9634, 5523, 1794, 5269, 3318, 5686, 7597, 2229, 6295, 4139, 1023, 8550, 3640, 2673, 6508, 6255, 1653, 9378, 6435, 9504, 4550>>)) >>,
    << D(<<0>>, <<2500>>),
       Val(D(<<0>>, <<2526, 8025, 5142, 0786, 5348, 5657, 4369, 9371, 0972, 2521, 9373, 3096, 8381, 9363, 3923, 7787, 4057, 5060, 4810, 2122, 2411, 7487, 4222, 8014, 6016>>)) >>,
    << D(<<0>>, <<5000>>),
       Val(D(<<0>>, <<5235, 9877, 5598, 2988, 7307, 7107, 2305, 4658, 3814, 0328, 6156, 6562, 5176, 3682, 9157, 4320, 5130, 2734, 3810, 3483, 3104, 6724, 7089, 0352, 8447>>)) >>,
    << D(<<1>>, <<>>),
       Val(D(<<1>>, <<5707, 9632, 6794, 8966, 1923, 1321, 6916, 3975, 1442, 0985, 8469, 9687, 5529, 1048, 7472, 2961, 5390, 8203, 1431, 0449, 9314, 0174, 1267, 1058, 5340>>)) >>,
    << N(<<0>>, <<1000>>),
       Val(N(<<0>>, <<1001, 6742, 1161, 5597, 9634, 5523, 1794, 5269, 3318, 5686, 7597, 2229, 6295, 4139, 1023, 8550, 3640, 2673, 6508, 6255, 1653, 9378, 6435, 9504, 4550>>)) >>,
    << N(<<0>>, <<2500>>),
       Val(N(<<0>>, <<2526, 8025, 5142, 0786, 5348, 5657, 4369, 9371, 0972, 2521, 9373, 3096, 8381, 9363, 3923, 7787, 4057, 5060, 4810, 2122, 2411, 7487, 4222, 8014, 6016>>)) >>,
    << N(<<0>>, <<5000>>),
       Val(N(<<0>>, <<5235, 9877, 5598, 2988, 7307, 7107, 2305, 4658, 3814, 0328, 6156, 6562, 5176, 3682, 9157, 4320, 5130, 2734, 3810, 3483, 3104, 6724, 7089, 0352, 8447>>)) >>,
    << N(<<1>>, <<>>),
       Val(N(<<1>>, <<5707, 9632, 6794, 8966, 1923, 1321, 6916, 3975, 1442, 0985, 8469, 9687, 5529, 1048, 7472, 2961, 5390, 8203, 1431, 0449, 9314, 0174, 1267, 1058, 5340>>)) >>,
    << D(<<0>>, <<9999, 9999>>),
       Val(D(<<1>>, <<5706, 5490, 5438, 5414, 5859, 5978, 5998, 0286, 2861, 2306, 0978, 3165, 5683, 1492, 0118, 7022, 6530, 3297, 7242, 9265, 5631, 6893, 4145, 0786, 0770>>)) >>,
    << N(<<0>>, <<9999, 9999>>),
       Val(N(<<1>>, <<5706, 5490, 5438, 5414, 5859, 5978, 5998, 0286, 2861, 2306, 0978, 3165, 5683, 1492, 0118, 7022, 6530, 3297, 7242, 9265, 5631, 6893, 4145, 0786, 0770>>)) >>,
    << D(<<0>>, <<7071, 0678>>),
       Val(D(<<0>>, <<7853, 9816, 1719, 4167, 0961, 5660, 8426, 6988, 5931, 8026, 3727, 0880, 9652, 8742, 4387, 5289, 4818, 7991, 8939, 9476, 2180, 1050, 5749, 0968, 3340>>)) >>,
    << N(<<0>>, <<7071, 0678>>),
       Val(N(<<0>>, <<7853, 9816, 1719, 4167, 0961, 5660, 8426, 6988, 5931, 8026, 3727, 0880, 9652, 8742, 4387, 5289, 4818, 7991, 8939, 9476, 2180, 1050, 5749, 0968, 3340>>)) >>,
    << D(<<0>>, <<8660, 2540>>),
       Val(D(<<1>>, <<0471, 9754, 3627, 7205, 0223, 9547, 1440, 1884, 5935, 1972, 7205, 9225, 8582, 6815, 2358, 4665, 8334, 7282, 4146, 3445, 0446, 9693, 3818, 8456, 6840>>)) >>,
    << N(<<0>>, <<8660, 2540>>),
       Val(N(<<1>>, <<0471, 9754, 3627, 7205, 0223, 9547, 1440, 1884, 5935, 1972, 7205, 9225, 8582, 6815, 2358, 4665, 8334, 7282, 4146, 3445, 0446, 9693, 3818, 8456, 6840>>)) >>,
    << D(<<0>>, <<2588, 1905>>),
       Val(D(<<0>>, <<2617, 9939, 2869, 3930, 3877, 5805, 5817, 3981, 0421, 3507, 2092, 6724, 8641, 6724, 1969, 7899, 1232, 9707, 7983, 3393, 2027, 8956, 1117, 0240, 5825>>)) >>,
    << N(<<0>>, <<2588, 1905>>),
       Val(N(<<0>>, <<2617, 9939, 2869, 3930, 3877, 5805, 5817, 3981, 0421, 3507, 2092, 6724, 8641, 6724, 1969, 7899, 1232, 9707, 7983, 3393, 2027, 8956, 1117, 0240, 5825>>)) >>,
    << D(<<0>>, <<3826, 8343>>),
       Val(D(<<0>>, <<3926, 9907, 9138, 7694, 3425, 4873, 8183, 4904, 9098, 9426, 9998, 1908, 2114, 8741, 9453, 0310, 2815, 1821, 1852, 0713, 2158, 0019, 6250, 9585, 3762>>)) >>,
    << N(<<0>>, <<3826, 8343>>),
       Val(N(<<0>>, <<3926, 9907, 9138, 7694, 3425, 4873, 8183, 4904, 9098, 9426, 9998, 1908, 2114, 8741, 9453, 0310, 2815, 1821, 1852, 0713, 2158, 0019, 6250, 9585, 3762>>)) >>,
    << D(<<0>>, <<0000, 0001>>),
       Val(D(<<0>>, <<0000, 0001, 0000, 0000, 0000, 0000, 1666, 6666, 6666, 6666, 7416, 6666, 6666, 6666, 7113, 0952, 3809, 5238, 1256, 2003, 9682, 5396, 8477, 6898, 4487, 7344, 8950>>)) >>,
    << N(<<0>>, <<0000, 0001>>),
       Val(N(<<0>>, <<0000, 0001, 0000, 0000, 0000, 0000, 1666, 6666, 6666, 6666, 7416, 6666, 6666, 6666, 7113, 0952, 3809, 5238, 1256, 2003, 9682, 5396, 8477, 6898, 4487, 7344, 8950>>)) >>
>>

\* mpmath.acos at mp.dps = 100
MpAcos == <<
    << D(<<0>>, <<>>),
       Val(D(<<1>>, <<5707, 9632, 6794, 8966, 1923, 1321, 6916, 3975, 1442, 0985, 8469, 9687, 5529, 1048, 7472, 2961, 5390, 8203, 1431, 0449, 9314, 0174, 1267, 1058, 5340>>)) >>,
    << D(<<0>>, <<1000>>),
       Val(D(<<1>>, <<4706, 2890, 5633, 3368, 2288, 5798, 5121, 8705, 8123, 5299, 0872, 7457, 9233, 6909, 6448, 4411, 1750, 5529, 4922, 4194, 7660, 0795, 4831, 1554, 0790>>)) >>,
    << D(<<0>>, <<2500>>),
       Val(D(<<1>>, <<3181, 1607, 1652, 8179, 6574, 5664, 2546, 4604, 0469, 8463, 9096, 6590, 7147, 1685, 3548, 5174, 1333, 3142, 6620, 8327, 6902, 2686, 7044, 3043, 9320>>)) >>,
    << D(<<0>>, <<5000>>),
       Val(D(<<1>>, <<0471, 9755, 1196, 5977, 4615, 4214, 4610, 9316, 7628, 0657, 2313, 3125, 0352, 7365, 8314, 8641, 0260, 5468, 7620, 6966, 6209, 3449, 4178, 0705, 6890>>)) >>,
    << D(<<1>>, <<>>),
       Val(D(<<0>>, <<>>)) >>,
    << N(<<0>>, <<1000>>),
       Val(D(<<1>>, <<6709, 6374, 7956, 4564, 1557, 6844, 8710, 9244, 4760, 6672, 6067, 1917, 1824, 5187, 8496, 1511, 9031, 0876, 7939, 6705, 0967, 9552, 7703, 0562, 9890>>)) >>,
    << N(<<0>>, <<2500>>),
       Val(D(<<1>>, <<8234, 7658, 1936, 9752, 7271, 6979, 1286, 3346, 2414, 3507, 7843, 2784, 3911, 0412, 1396, 0748, 9448, 3263, 6241, 2572, 1725, 7661, 5489, 9073, 1360>>)) >>,
    << N(<<0>>, <<5000>>),
       Val(D(<<2>>, <<0943, 9510, 2393, 1954, 9230, 8428, 9221, 8633, 5256, 1314, 4626, 6250, 0705, 4731, 6629, 7282, 0521, 0937, 5241, 3933, 2418, 6898, 8356, 1411, 3790>>)) >>,
    << N(<<1>>, <<>>),
       Val(D(<<3>>, <<1415, 9265, 3589, 7932, 3846, 2643, 3832, 7950, 2884, 1971, 6939, 9375, 1058, 2097, 4944, 5923, 0781, 6406, 2862, 0899, 8628, 0348, 2534, 2117, 0680>>)) >>,
    << D(<<0>>, <<9999, 9999>>),
       Val(D(<<0>>, <<0001, 4142, 1356, 3551, 6063, 5343, 0918, 3688, 8580, 8679, 7491, 6521, 9845, 9556, 7353, 5938, 8860, 4905, 4188, 1184, 3682, 3280, 7122, 0272, 4572, 2660>>)) >>,
    << N(<<0>>, <<9999, 9999>>),
       Val(D(<<3>>, <<1414, 5123, 2233, 4380, 7782, 7300, 2914, 4261, 4303, 3291, 9448, 2853, 1212, 2540, 7590, 9984, 1921, 1500, 8673, 9715, 4945, 7067, 5412, 1844, 6110>>)) >>,
    << D(<<0>>, <<7071, 0678>>),
       Val(D(<<0>>, <<7853, 9816, 5075, 4799, 0961, 5660, 8489, 6986, 5510, 2959, 4742, 8806, 5876, 2306, 3084, 7672, 0572, 0211, 2491, 0973, 7133, 9123, 5518, 0090, 1999>>)) >>,
    << N(<<0>>, <<7071, 0678>>),
       Val(D(<<2>>, <<3561, 9448, 8514, 3133, 2884, 6982, 5343, 0963, 7373, 9012, 2197, 0568, 5181, 9791, 1859, 8251, 0209, 6195, 0370, 9926, 1494, 1224, 7016, 2026, 8680>>)) >>,
    << D(<<0>>, <<8660, 2540>>),
       Val(D(<<0>>, <<5235, 9878, 3167, 1761, 1699, 1774, 5476, 2090, 5506, 9013, 1264, 0461, 6946, 4233, 5113, 8295, 7056, 0920, 7284, 7004, 8867, 0480, 7448, 2601, 8497>>)) >>,
    << N(<<0>>, <<8660, 2540>>),
       Val(D(<<2>>, <<6179, 9387, 0422, 6171, 2147, 0868, 8356, 5859, 7377, 2958, 5675, 8913, 4111, 7863, 9830, 7627, 3725, 5485, 5577, 3894, 9760, 9867, 5085, 9515, 2180>>)) >>,
    << D(<<0>>, <<2588, 1905>>),
       Val(D(<<1>>, <<3089, 9693, 3925, 5035, 8045, 5516, 1098, 9994, 1020, 7478, 6377, 2962, 6887, 4324, 5502, 5062, 4157, 8495, 3447, 7056, 7286, 1218, 0150, 0817, 9510>>)) >>,
    << N(<<0>>, <<2588, 1905>>),
       Val(D(<<1>>, <<8325, 9571, 9664, 2896, 5800, 7127, 2733, 7956, 1863, 4493, 0562, 6412, 4170, 7772, 9442, 0860, 6623, 7910, 9414, 3843, 1341, 9130, 2384, 1299, 1170>>)) >>,
    << D(<<0>>, <<3826, 8343>>),
       Val(D(<<1>>, <<1780, 9724, 7656, 1271, 8497, 6447, 8732, 9070, 2343, 1558, 8471, 7779, 3414, 2306, 8019, 2651, 2575, 6381, 9578, 9736, 7156, 0154, 5016, 1473, 1580>>)) >>,
    << N(<<0>>, <<3826, 8343>>),
       Val(D(<<1>>, <<9634, 9540, 5933, 6660, 5348, 6195, 5099, 8880, 0541, 0412, 8468, 1595, 7643, 9790, 6925, 3271, 8206, 0024, 3283, 1163, 1472, 0193, 7518, 0643, 9100>>)) >>,
    << D(<<0>>, <<0000, 0001>>),
       Val(D(<<1>>, <<5707, 9631, 6794, 8966, 1923, 1321, 5249, 7308, 4775, 4319, 1053, 3020, 8862, 4382, 0359, 2009, 1581, 2965, 0174, 8445, 9631, 4777, 2789, 4160, 0850>>)) >>,
    << N(<<0>>, <<0000, 0001>>),
       Val(D(<<1>>, <<5707, 9633, 6794, 8966, 1923, 1321, 8583, 0641, 8108, 7652, 5886, 6354, 2195, 7715, 4585, 3913, 9200, 3441, 2687, 2453, 8996, 5570, 9744, 7956, 9830>>)) >>
>>


(* ------------------------------------------------------------------ *)
(* generators/genTestData.py                                           *)
(* ------------------------------------------------------------------ *)

Zero == D(<<0>>, <<>>)
Two  == D(<<2>>, <<>>)

\* a name that is not bound yet
Unbound == [neg |-> FALSE, num |-> <<>>, den |-> <<>>, fl |-> 0]

\* 2**128
TwoPow128 == D(<<340, 2823, 6692, 0938, 4634, 6337, 4607, 4317, 6821, 1456>>, <<>>)

\* types[outputType][0]: Decimal(0), Decimal(-2**63) / Decimal("1e8"), Decimal(-2**127) / Decimal("1e24")
minVal(outputType) ==
    CASE outputType = "UFix64"  -> Zero
      [] outputType = "Fix64"   -> N(<<922, 3372, 0368>>, <<5477, 5808>>)
      [] outputType = "UFix128" -> Zero
      [] outputType = "Fix128"  -> N(<<170, 1411, 8346, 0469>>, <<2317, 3168, 7303, 7158, 8410, 5728>>)

\* types[outputType][1]: (Decimal(2**64) - 1) / Decimal("1e8"), ...
maxVal(outputType) ==
    CASE outputType = "UFix64"  -> D(<<1844, 6744, 0737>>, <<0955, 1615>>)
      [] outputType = "Fix64"   -> D(<<922, 3372, 0368>>, <<5477, 5807>>)
      [] outputType = "UFix128" -> D(<<340, 2823, 6692, 0938>>, <<4634, 6337, 4607, 4317, 6821, 1455>>)
      [] outputType = "Fix128"  -> D(<<170, 1411, 8346, 0469>>, <<2317, 3168, 7303, 7158, 8410, 5727>>)

\* types[outputType][2]: Decimal("1e-8") or Decimal("1e-24")
quanta(outputType) ==
    IF outputType \in {"UFix64", "Fix64"}
    THEN D(<<0>>, <<0000, 0001>>)
    ELSE D(<<0>>, <<0000, 0000, 0000, 0000, 0000, 0001>>)

\* 10**8 and 10**24
TenPow8  == D(<<1, 0000, 0000>>, <<>>)
TenPow24 == D(<<1, 0000, 0000, 0000, 0000, 0000, 0000>>, <<>>)

\* 0xFFFFFFFFFFFFFFFF and 0xFFFFFFFFFFFFFFFFFFFFFFFFFFFFFFFF
Ones64  == D(<<1844, 6744, 0737, 0955, 1615>>, <<>>)
Ones128 == D(<<340, 2823, 6692, 0938, 4634, 6337, 4607, 4317, 6821, 1455>>, <<>>)

\* hex64(val): int((val * 10**8).quantize(1, rounding='ROUND_HALF_UP')) & 0xFFFFFFFFFFFFFFFF
hex64(val) == BitAnd(int(quantize(DecMul(val, TenPow8), 0, "ROUND_HALF_UP")), Ones64)

\* hex128(val): int((val * 10**24).quantize(1, rounding='ROUND_HALF_UP')) & (2**128 - 1)
hex128(val) == BitAnd(int(quantize(DecMul(val, TenPow24), 0, "ROUND_HALF_UP")), Ones128)

\* types[outputType][3]
formatFunc(outputType, val) ==
    IF outputType \in {"UFix64", "Fix64"} THEN hex64(val) ELSE hex128(val)

\* the keys of `operations` and of `types`
Operations == {"Add", "Sub", "Mul", "Div", "FMD", "Mod", "Sqrt", "Ln", "Exp", "Pow",
               "Clamp", "Sin", "Cos", "Tan"}
OutputTypes == {"UFix64", "Fix64", "UFix128", "Fix128"}

\* len(inspect.signature(operationFunc).parameters)
argCount(operation) ==
    IF operation = "FMD" THEN 3
    ELSE IF operation \in {"Sqrt", "Ln", "Exp", "Clamp", "Sin", "Cos", "Tan"} THEN 1
    ELSE 2

\* outputType[0] == 'U'
IsUnsigned(outputType) == outputType \in {"UFix64", "UFix128"}

\* "U" + outputType and outputType[1:]
UnsignedOf(outputType) == IF outputType = "Fix64" THEN "UFix64" ELSE "UFix128"
SignedOf(outputType)   == IF outputType = "UFix64" THEN "Fix64" ELSE "Fix128"

\* the match statement: Ln requires a signed output type, Exp and Pow an
\* unsigned one; otherwise the script exits
Exits(outputType, operation) ==
    \/ operation = "Ln" /\ IsUnsigned(outputType)
    \/ operation \in {"Exp", "Pow"} /\ ~IsUnsigned(outputType)

\* argTypes after the match statement
argTypes(outputType, operation) ==
    CASE operation = "Ln"  -> << UnsignedOf(outputType) >>
      [] operation = "Exp" -> << SignedOf(outputType) >>
      [] operation = "Pow" -> << outputType, SignedOf(outputType) >>
      [] OTHER -> [i \in 1..argCount(operation) |-> outputType]

\* decPi = Decimal(str(mpmath.pi)): pi to 100 significant digits
decPi ==
    D(<<3>>,
      <<1415, 9265, 3589, 7932, 3846, 2643, 3832, 7950, 2884, 1971, 6939, 9375, 1058, 2097, 4944, 5923, 0781, 6406, 2862, 0899, 8628, 0348, 2534, 2117, 0680>>)

\* getcontext().prec
Prec == 100

\* decSin, decCos, decTan: Decimal(str(mpmath.sin(mpmath.mpf(str(x))))) ...
decSin(x) == Lookup(MpSin, x).val
decCos(x) == Lookup(MpCos, x).val
decTan(x) == Lookup(MpTan, x).val

\* decPi * 2
ClampTwoPi == RoundPrec(DecMul(decPi, D(<<2>>, <<>>)), Prec)

\* ClampFold with >= for >: pi itself is moved to -pi
ClampFoldClosed(x) ==
    IF DecGE(x, decPi) THEN RoundPrec(DecSub(x, ClampTwoPi), Prec) ELSE x

\* if x > decPi: x -= decPi * 2
ClampFold(x) ==
    IF DecGT(x, decPi) THEN RoundPrec(DecSub(x, ClampTwoPi), Prec) ELSE x

\* if x < 0: x += decPi * 2
ClampLift(x) ==
    IF DecLT(x, Zero) THEN RoundPrec(DecAdd(x, ClampTwoPi), Prec) ELSE x

\* decClamp up to its last statement: x % (decPi * 2), then the two ifs
ClampAngle(x) == ClampFold(ClampLift(RoundPrec(DecMod(x, ClampTwoPi), Prec)))

\* 21264757054
ClampScale == D(<<212, 6475, 7054>>, <<>>)

\* decClamp(x): ... x = x * 21264757054
decClamp(x) == RoundPrec(DecMul(ClampAngle(x), ClampScale), Prec)

\* Call with 0 / 0 taken for the value 0 in place of DivisionUndefined
CallZeroByZero(operation, a, b) ==
    CASE operation = "Add" -> [exc |-> "None", val |-> DecAdd(a, b)]
      [] operation = "Sub" -> [exc |-> "None", val |-> DecSub(a, b)]
      [] operation = "Mul" -> [exc |-> "None", val |-> DecMul(a, b)]
      [] operation = "Div" ->
            IF ~is_zero(b) THEN [exc |-> "None", val |-> DecDiv(a, b)]
            ELSE IF is_zero(a) THEN [exc |-> "None", val |-> Zero]
            ELSE [exc |-> "ZeroDivisionError", val |-> Zero]
      [] operation = "Mod" ->
            IF ~is_zero(b) THEN [exc |-> "None", val |-> DecMod(a, b)]
            ELSE [exc |-> "InvalidOperation", val |-> Zero]
      [] operation = "Pow" -> Lookup2(DecimalPow, a, b)

\* operations[operation][0](*values) for the operations of two operands:
\* the value, or the exception Decimal raises.  a / 0 raises DivisionByZero
\* (a ZeroDivisionError) and 0 / 0 raises DivisionUndefined (an
\* InvalidOperation), as a % 0 and 0 % 0 do.
Call(operation, a, b) ==
    CASE operation = "Add" -> [exc |-> "None", val |-> DecAdd(a, b)]
      [] operation = "Sub" -> [exc |-> "None", val |-> DecSub(a, b)]
      [] operation = "Mul" -> [exc |-> "None", val |-> DecMul(a, b)]
      [] operation = "Div" ->
            IF ~is_zero(b) THEN [exc |-> "None", val |-> DecDiv(a, b)]
            ELSE IF is_zero(a) THEN [exc |-> "InvalidOperation", val |-> Zero]
            ELSE [exc |-> "ZeroDivisionError", val |-> Zero]
      [] operation = "Mod" ->
            IF ~is_zero(b) THEN [exc |-> "None", val |-> DecMod(a, b)]
            ELSE [exc |-> "InvalidOperation", val |-> Zero]
      [] operation = "Pow" -> Lookup2(DecimalPow, a, b)

\* a * b / c: 0 / 0 raises an InvalidOperation, x / 0 a ZeroDivisionError
CallFMD(a, b, c) ==
    IF ~is_zero(c) THEN [exc |-> "None", val |-> DecDiv(DecMul(a, b), c)]
    ELSE IF is_zero(a) \/ is_zero(b) THEN [exc |-> "InvalidOperation", val |-> Zero]
    ELSE [exc |-> "ZeroDivisionError", val |-> Zero]

\* the operations of one operand
Call1(operation, a) ==
    CASE operation = "Sqrt"  -> Lookup(DecimalSqrt, a)
      [] operation = "Ln"    -> Lookup(DecimalLn, a)
      [] operation = "Exp"   -> Lookup(DecimalExp, a)
      [] operation = "Clamp" -> [exc |-> "None", val |-> decClamp(a)]
      [] operation = "Sin"   -> [exc |-> "None", val |-> decSin(a)]
      [] operation = "Cos"   -> [exc |-> "None", val |-> decCos(a)]
      [] operation = "Tan"   -> [exc |-> "None", val |-> decTan(a)]

\* operations[operation][0](*values)
operationFunc(operation, values) ==
    IF argCount(operation) = 1 THEN Call1(operation, values[1])
    ELSE IF argCount(operation) = 3 THEN CallFMD(values[1], values[2], values[3])
    ELSE Call(operation, values[1], values[2])

\* QuantizeDown without `and not beforeRounding.is_zero()`
QuantizeDownAnyZero(beforeRounding, rounded) ==
    [result |-> rounded, err |-> IF is_zero(rounded) THEN "Underflow" ELSE "None"]

\* QuantizeDown without the test of the rounded result
QuantizeDownNoError(beforeRounding, rounded) ==
    [result |-> rounded, err |-> "None"]

\* result.quantize(quanta, rounding='ROUND_DOWN'): a nonzero result that
\* becomes zero is an Underflow
QuantizeDown(beforeRounding, rounded) ==
    [result |-> rounded,
     err |-> IF is_zero(rounded) /\ ~is_zero(beforeRounding) THEN "Underflow" ELSE "None"]

\* the try block of main's loop, r being what operationFunc returned or
\* raised: `prev` is the value the variable result holds from the row
\* before, which an exception leaves in place.  quantize raises an
\* InvalidOperation on an infinite result, after result was assigned.
TryResult(outputType, r, prev) ==
    IF r.exc \in {"ZeroDivisionError", "InvalidOperation"}
    THEN [result |-> prev, err |-> "DivByZero"]
    ELSE IF r.exc = "Overflow"
    THEN [result |-> prev, err |-> "Overflow"]
    ELSE IF DecGT(r.val, TwoPow128)
    THEN [result |-> r.val, err |-> "Overflow"]
    ELSE IF ~is_zero(r.val)
            /\ DecLT(copy_sign_1(r.val), DecDiv(quanta(outputType), Two))
    THEN [result |-> r.val, err |-> "Underflow"]
    ELSE IF is_infinite(r.val)
    THEN [result |-> r.val, err |-> "DivByZero"]
    ELSE QuantizeDown(r.val, quantize(r.val, quanta(outputType).fl, "ROUND_DOWN"))

TryBlock(outputType, operation, values, prev) ==
    TryResult(outputType, operationFunc(operation, values), prev)

\* LnDomain with < for ==
LnDomainBelow(operation, values, s) ==
    IF operation = "Ln" /\ DecLT(values[1], Zero)
    THEN [s EXCEPT !.err = "DomainError"] ELSE s

\* if operation == "Ln" and values[0] == 0: err = "DomainError"
LnDomain(operation, values, s) ==
    IF operation = "Ln" /\ DecEQ(values[1], Zero)
    THEN [s EXCEPT !.err = "DomainError"] ELSE s

\* RangeCheck with >= for >: the maximum itself an Overflow
RangeCheckInclusive(outputType, s) ==
    IF s.err # "None" THEN s
    ELSE IF DecGE(s.result, maxVal(outputType)) THEN [s EXCEPT !.err = "Overflow"]
    ELSE IF DecLT(s.result, minVal(outputType)) THEN [s EXCEPT !.err = "NegOverflow"]
    ELSE s

\* RangeCheck with one error for both bounds
RangeCheckOneError(outputType, s) ==
    IF s.err # "None" THEN s
    ELSE IF DecGT(s.result, maxVal(outputType)) \/ DecLT(s.result, minVal(outputType))
    THEN [s EXCEPT !.err = "Overflow"]
    ELSE s

\* if err is None: Overflow above maxVal, NegOverflow below minVal
RangeCheck(outputType, s) ==
    IF s.err # "None" THEN s
    ELSE IF DecGT(s.result, maxVal(outputType)) THEN [s EXCEPT !.err = "Overflow"]
    ELSE IF DecLT(s.result, minVal(outputType)) THEN [s EXCEPT !.err = "NegOverflow"]
    ELSE s

\* SinCosClamp without the test of the operation
SinCosClampAll(operation, s) ==
    IF s.err = "Underflow" THEN [result |-> Zero, err |-> "None"] ELSE s

\* SinCosClamp for Sin, Cos and Tan
SinCosClampTan(operation, s) ==
    IF operation \in {"Sin", "Cos", "Tan"} /\ s.err = "Underflow"
    THEN [result |-> Zero, err |-> "None"] ELSE s

\* Sin and Cos: an Underflow becomes the value 0
SinCosClamp(operation, s) ==
    IF operation \in {"Sin", "Cos"} /\ s.err = "Underflow"
    THEN [result |-> Zero, err |-> "None"] ELSE s

\* ExpPowZero without the test of the operation
ExpPowZeroAll(operation, s) ==
    IF s.err = "None" /\ is_zero(s.result)
    THEN [s EXCEPT !.err = "Underflow"] ELSE s

\* ExpPowZero for Pow alone
ExpPowZeroPow(operation, s) ==
    IF operation = "Pow" /\ s.err = "None" /\ is_zero(s.result)
    THEN [s EXCEPT !.err = "Underflow"] ELSE s

\* Exp and Pow: a zero result without error is an Underflow
ExpPowZero(operation, s) ==
    IF operation \in {"Exp", "Pow"} /\ s.err = "None" /\ is_zero(s.result)
    THEN [s EXCEPT !.err = "Underflow"] ELSE s

\* PowZeroBase that leaves a row alone once it carries an error kind
PowZeroBaseUnlessError(operation, values, s) ==
    IF operation = "Pow" /\ DecEQ(values[1], Zero) /\ s.err = "None"
    THEN IF DecLT(values[2], Zero) THEN [result |-> Zero, err |-> "DivByZero"]
         ELSE IF DecEQ(values[2], Zero) THEN [result |-> D(<<1>>, <<>>), err |-> "None"]
         ELSE [result |-> Zero, err |-> "None"]
    ELSE s

\* Pow with base 0
PowZeroBase(operation, values, s) ==
    IF operation = "Pow" /\ DecEQ(values[1], Zero)
    THEN IF DecLT(values[2], Zero) THEN [result |-> Zero, err |-> "DivByZero"]
         ELSE IF DecEQ(values[2], Zero) THEN [result |-> D(<<1>>, <<>>), err |-> "None"]
         ELSE [result |-> Zero, err |-> "None"]
    ELSE s

\* ErrorValue that leaves the result of an Underflow as the row computed it
ErrorValueKept(s) ==
    IF s.err \in {"None", "Underflow"} THEN s ELSE [s EXCEPT !.result = Zero]

\* if err is not None: result = Decimal(0)
ErrorValue(s) == IF s.err = "None" THEN s ELSE [s EXCEPT !.result = Zero]

\* one pass of the loop `for tuple in itertools.product(*argGenerators)`
LoopBody(outputType, operation, values, prev) ==
    ErrorValue(
      PowZeroBase(operation, values,
        ExpPowZero(operation,
          SinCosClamp(operation,
            RangeCheck(outputType,
              LnDomain(operation, values,
                TryBlock(outputType, operation, values, prev)))))))

(* ------------------------------------------------------------------ *)
(* generators/utils.py and testgen/utils.py                            *)
(* ------------------------------------------------------------------ *)

FIX64_SCALE  == D(<<1, 0000, 0000>>, <<>>)
FIX128_SCALE == D(<<1, 0000, 0000, 0000, 0000, 0000, 0000>>, <<>>)
MASK64  == D(<<1844, 6744, 0737, 0955, 1615>>, <<>>)
MASK128 == D(<<340, 2823, 6692, 0938, 4634, 6337, 4607, 4317, 6821, 1455>>, <<>>)

\* -0x8000000000000000, 0x7FFFFFFFFFFFFFFF and their 128-bit counterparts
MinInt64  == N(<<922, 3372, 0368, 5477, 5808>>, <<>>)
MaxInt64  == D(<<922, 3372, 0368, 5477, 5807>>, <<>>)
MinInt128 == N(<<170, 1411, 8346, 0469, 2317, 3168, 7303, 7158, 8410, 5728>>, <<>>)
MaxInt128 == D(<<170, 1411, 8346, 0469, 2317, 3168, 7303, 7158, 8410, 5727>>, <<>>)

\* what a call returns: a value, or the exception it raises
Return(val) == [exc |-> "None", val |-> val]
Raise(exc)  == [exc |-> exc, val |-> Zero]

\* RangeMask without the test of the range
RangeMaskUnchecked(n, lo, hi, mask) == Return(BitAnd(n, mask))

\* if n < lo or n > hi: raise ValueError(...); return n & mask
RangeMask(n, lo, hi, mask) ==
    IF DecLT(n, lo) \/ DecGT(n, hi) THEN Raise("ValueError") ELSE Return(BitAnd(n, mask))

\* generators/utils.py: the scaled value is rounded half-up for the 64-bit
\* types and truncated by int() for the 128-bit types
to_ufix64(val) ==
    RangeMask(int(quantize(DecMul(val, FIX64_SCALE), 0, "ROUND_HALF_UP")), Zero, MASK64, MASK64)

to_fix64(val) ==
    RangeMask(int(quantize(DecMul(val, FIX64_SCALE), 0, "ROUND_HALF_UP")), MinInt64, MaxInt64, MASK64)

to_ufix128(val) == RangeMask(int(DecMul(val, FIX128_SCALE)), Zero, MASK128, MASK128)

to_fix128(val) == RangeMask(int(DecMul(val, FIX128_SCALE)), MinInt128, MaxInt128, MASK128)

\* testgen/utils.py: all four truncate by int()
testgen_to_ufix64(val) == RangeMask(int(DecMul(val, FIX64_SCALE)), Zero, MASK64, MASK64)

testgen_to_fix64(val) == RangeMask(int(DecMul(val, FIX64_SCALE)), MinInt64, MaxInt64, MASK64)

testgen_to_ufix128(val) == RangeMask(int(DecMul(val, FIX128_SCALE)), Zero, MASK128, MASK128)

testgen_to_fix128(val) == RangeMask(int(DecMul(val, FIX128_SCALE)), MinInt128, MaxInt128, MASK128)

\* An input string of a table, read as the regular expression of
\* parseInput64 / parseInput128 reads it:
\*   "MaxFix64"          S("MaxFix64")
\*   "MaxFix64 - 1.0"    SM("MaxFix64", D(<<1>>, <<>>))
\*   "MinFix64 + 1e-8"   SP("MinFix64", D(<<0>>, <<0000, 0001>>))
\*   "0x280fffffd7f"     X(D(<<2, 7530, 7403, 6095>>, <<>>))   (int(s, 16))
\*   "1.5"               D(<<1>>, <<5000>>)                    (Decimal(s))
S(key)       == [key |-> key, op |-> "", mod |-> Zero]
SP(key, mod) == [key |-> key, op |-> "+", mod |-> mod]
SM(key, mod) == [key |-> key, op |-> "-", mod |-> mod]
X(bits)      == [key |-> "0x", op |-> "", mod |-> bits]

\* the table `specials` of parseInput64
specials64 ==
    [MaxUFix64     |-> D(<<1844, 6744, 0737>>, <<0955, 1615>>),
     MaxFix64      |-> D(<<922, 3372, 0368>>, <<5477, 5807>>),
     MinFix64      |-> N(<<922, 3372, 0368>>, <<5477, 5808>>),
     HalfMaxUFix64 |-> D(<<922, 3372, 0368>>, <<5477, 5807>>),
     HalfMaxFix64  |-> D(<<461, 1686, 0184>>, <<2738, 7903>>),
     HalfMinFix64  |-> N(<<461, 1686, 0184>>, <<2738, 7904>>)]

\* the table `specials` of parseInput128: (2**128 - 1) / 10**24, (2**127 - 1) / 10**24,
\* -(2**127) / 10**24, (2**127 - 1) / 10**24, (2**126 - 1) / 10**24, -(2**126) / 10**24
specials128 ==
    [MaxUFix128     |-> D(<<340, 2823, 6692, 0938>>, <<4634, 6337, 4607, 4317, 6821, 1455>>),
     MaxFix128      |-> D(<<170, 1411, 8346, 0469>>, <<2317, 3168, 7303, 7158, 8410, 5727>>),
     MinFix128      |-> N(<<170, 1411, 8346, 0469>>, <<2317, 3168, 7303, 7158, 8410, 5728>>),
     HalfMaxUFix128 |-> D(<<170, 1411, 8346, 0469>>, <<2317, 3168, 7303, 7158, 8410, 5727>>),
     HalfMaxFix128  |-> D(<<85, 0705, 9173, 0234>>, <<6158, 6584, 3651, 8579, 4205, 2863>>),
     HalfMinFix128  |-> N(<<85, 0705, 9173, 0234>>, <<6158, 6584, 3651, 8579, 4205, 2864>>)]

\* parseInput64 / parseInput128 with their scale and their specials
parseInput(s, scale, specials) ==
    IF "key" \notin DOMAIN s THEN Return(s)
    ELSE IF s.key = "0x" THEN Return(quantize(DecDiv(s.mod, scale), scale.fl + Len(scale.num) - 1, "ROUND_DOWN"))
    ELSE IF s.key \notin DOMAIN specials THEN Raise("ValueError")
    ELSE IF s.op = "+" THEN Return(DecAdd(specials[s.key], s.mod))
    ELSE IF s.op = "-" THEN Return(DecSub(specials[s.key], s.mod))
    ELSE Return(specials[s.key])

parseInput64(s)  == parseInput(s, FIX64_SCALE, specials64)
parseInput128(s) == parseInput(s, FIX128_SCALE, specials128)

(* ------------------------------------------------------------------ *)
(* The literal tables of the table scripts, row by row                 *)
(* ------------------------------------------------------------------ *)

\* generators/add64.py lines 161-194
AddUFix64Tests == <<
    << D(<<1>>, <<>>), D(<<1>>, <<>>) >>,
    << D(<<1>>, <<>>), D(<<0>>, <<>>) >>,
    << D(<<0>>, <<>>), D(<<0>>, <<>>) >>,
    << D(<<0>>, <<>>), D(<<1>>, <<>>) >>,
    << D(<<1>>, <<>>), D(<<1, 0000, 0000>>, <<>>) >>,
    << D(<<1>>, <<>>), D(<<1, 0000, 0001>>, <<>>) >>,
    << D(<<123>>, <<4560>>), D(<<789>>, <<0120>>) >>,
    << D(<<456>>, <<7890>>), D(<<123>>, <<4560>>) >>,
    << D(<<0>>, <<0001, 2300>>), D(<<0>>, <<0004, 5600>>) >>,
    << D(<<0>>, <<0007, 8900>>), D(<<0>>, <<0003, 2100>>) >>,
    << D(<<9, 8765>>, <<4321>>), D(<<1, 2345>>, <<6789>>) >>,
    << D(<<3, 1415>>, <<9265>>), D(<<2, 7182>>, <<8182>>) >>,
    << D(<<2, 7182>>, <<8182>>), D(<<3, 1415>>, <<9265>>) >>,
    << D(<<1>>, <<2345, 6789>>), D(<<0>>, <<9876, 5432>>) >>,
    << D(<<0>>, <<9999, 9999>>), D(<<0>>, <<0000, 0001>>) >>,
    << SM("MaxUFix64", D(<<1>>, <<>>)), D(<<1>>, <<>>) >>,
    << SM("MaxUFix64", D(<<0>>, <<1000>>)), D(<<0>>, <<1000>>) >>,
    << SM("MaxUFix64", D(<<0>>, <<0100>>)), D(<<0>>, <<0100>>) >>,
    << SM("MaxUFix64", D(<<0>>, <<0010>>)), D(<<0>>, <<0010>>) >>,
    << SM("MaxUFix64", D(<<0>>, <<0001>>)), D(<<0>>, <<0001>>) >>,
    << SM("MaxUFix64", D(<<0>>, <<0000, 1000>>)), D(<<0>>, <<0000, 1000>>) >>,
    << SM("MaxUFix64", D(<<0>>, <<0000, 0100>>)), D(<<0>>, <<0000, 0100>>) >>,
    << SM("MaxUFix64", D(<<0>>, <<0000, 0010>>)), D(<<0>>, <<0000, 0010>>) >>,
    << SM("MaxUFix64", D(<<0>>, <<0000, 0001>>)), D(<<0>>, <<0000, 0001>>) >>,
    << S("HalfMaxUFix64"), S("HalfMaxUFix64") >>,
    << SP("HalfMaxUFix64", D(<<0>>, <<0000, 0001>>)), S("HalfMaxUFix64") >>,
    << S("HalfMaxUFix64"), SP("HalfMaxUFix64", D(<<0>>, <<0000, 0001>>)) >>
>>

\* generators/add64.py lines 196-214
AddUFix64OverflowTests == <<
    << S("MaxUFix64"), D(<<1>>, <<>>) >>,
    << S("MaxUFix64"), D(<<0>>, <<0100>>) >>,
    << S("MaxUFix64"), D(<<0>>, <<0010>>) >>,
    << S("MaxUFix64"), D(<<0>>, <<0000, 1000>>) >>,
    << S("MaxUFix64"), D(<<0>>, <<0000, 0010>>) >>,
    << S("MaxUFix64"), D(<<0>>, <<0000, 0001>>) >>,
    << S("MaxUFix64"), S("MaxUFix64") >>,
    << S("HalfMaxUFix64"), SP("HalfMaxUFix64", D(<<1>>, <<>>)) >>,
    << S("HalfMaxUFix64"), SP("HalfMaxUFix64", D(<<0>>, <<1000>>)) >>,
    << S("HalfMaxUFix64"), SP("HalfMaxUFix64", D(<<0>>, <<0100>>)) >>,
    << S("HalfMaxUFix64"), SP("HalfMaxUFix64", D(<<0>>, <<0010>>)) >>,
    << S("HalfMaxUFix64"), SP("HalfMaxUFix64", D(<<0>>, <<0001>>)) >>,
    << S("HalfMaxUFix64"), SP("HalfMaxUFix64", D(<<0>>, <<0000, 1000>>)) >>,
    << S("HalfMaxUFix64"), SP("HalfMaxUFix64", D(<<0>>, <<0000, 0100>>)) >>,
    << SP("HalfMaxUFix64", D(<<0>>, <<0000, 0001>>)), SP("HalfMaxUFix64", D(<<0>>, <<0000, 0001>>)) >>,
    << SP("HalfMaxUFix64", D(<<0>>, <<0000, 0002>>)), S("HalfMaxUFix64") >>,
    << S("HalfMaxUFix64"), SP("HalfMaxUFix64", D(<<0>>, <<0000, 0002>>)) >>
>>

\* generators/add64.py lines 216-301
AddFix64Tests == <<
    << D(<<1>>, <<>>), D(<<1>>, <<>>) >>,
    << D(<<1>>, <<>>), D(<<0>>, <<>>) >>,
    << D(<<0>>, <<>>), D(<<0>>, <<>>) >>,
    << D(<<0>>, <<>>), D(<<1>>, <<>>) >>,
    << D(<<1>>, <<>>), D(<<2>>, <<>>) >>,
    << N(<<1>>, <<>>), D(<<2>>, <<>>) >>,
    << D(<<1>>, <<>>), N(<<2>>, <<>>) >>,
    << N(<<1>>, <<>>), N(<<2>>, <<>>) >>,
    << D(<<1>>, <<>>), D(<<1, 0000, 0000>>, <<>>) >>,
    << D(<<1>>, <<>>), D(<<1, 0000, 0001>>, <<>>) >>,
    << D(<<1>>, <<>>), D(<<9999, 9999>>, <<>>) >>,
    << D(<<123>>, <<4560>>), D(<<789>>, <<0120>>) >>,
    << N(<<456>>, <<7890>>), D(<<123>>, <<4560>>) >>,
    << D(<<0>>, <<0001, 2300>>), D(<<0>>, <<0004, 5600>>) >>,
    << N(<<0>>, <<0007, 8900>>), D(<<0>>, <<0003, 2100>>) >>,
    << D(<<9, 8765>>, <<4321>>), N(<<1, 2345>>, <<6789>>) >>,
    << D(<<3, 1415>>, <<9265>>), D(<<2, 7182>>, <<8182>>) >>,
    << N(<<2, 7182>>, <<8182>>), N(<<3, 1415>>, <<9265>>) >>,
    << D(<<1>>, <<2345, 6789>>), N(<<0>>, <<9876, 5432>>) >>,
    << D(<<0>>, <<9999, 9999>>), D(<<0>>, <<0000, 0001>>) >>,
    << N(<<0>>, <<9999, 9999>>), N(<<0>>, <<0000, 0001>>) >>,
    << SM("MaxFix64", D(<<1>>, <<>>)), D(<<1>>, <<>>) >>,
    << SM("MaxFix64", D(<<0>>, <<1000>>)), D(<<0>>, <<1000>>) >>,
    << SM("MaxFix64", D(<<0>>, <<0100>>)), D(<<0>>, <<0100>>) >>,
    << SM("MaxFix64", D(<<0>>, <<0010>>)), D(<<0>>, <<0010>>) >>,
    << SM("MaxFix64", D(<<0>>, <<0001>>)), D(<<0>>, <<0001>>) >>,
    << SM("MaxFix64", D(<<0>>, <<0000, 1000>>)), D(<<0>>, <<0000, 1000>>) >>,
    << SM("MaxFix64", D(<<0>>, <<0000, 0100>>)), D(<<0>>, <<0000, 0100>>) >>,
    << SM("MaxFix64", D(<<0>>, <<0000, 0010>>)), D(<<0>>, <<0000, 0010>>) >>,
    << SM("MaxFix64", D(<<0>>, <<0000, 0001>>)), D(<<0>>, <<0000, 0001>>) >>,
    << S("HalfMaxFix64"), S("HalfMaxFix64") >>,
    << SP("HalfMaxFix64", D(<<0>>, <<0000, 0001>>)), S("HalfMaxFix64") >>,
    << S("HalfMaxFix64"), SP("HalfMaxFix64", D(<<0>>, <<0000, 0001>>)) >>,
    << S("MaxFix64"), N(<<1>>, <<>>) >>,
    << S("MaxFix64"), D(<<0>>, <<>>) >>,
    << S("MaxFix64"), N(<<0>>, <<1000>>) >>,
    << S("MaxFix64"), N(<<0>>, <<0100>>) >>,
    << S("MaxFix64"), N(<<0>>, <<0010>>) >>,
    << S("MaxFix64"), N(<<0>>, <<0001>>) >>,
    << S("MaxFix64"), N(<<0>>, <<0000, 1000>>) >>,
    << S("MaxFix64"), N(<<0>>, <<0000, 0100>>) >>,
    << S("MaxFix64"), N(<<0>>, <<0000, 0010>>) >>,
    << S("MaxFix64"), N(<<0>>, <<0000, 0001>>) >>,
    << S("HalfMaxFix64"), S("HalfMaxFix64") >>,
    << SP("MinFix64", D(<<1>>, <<>>)), N(<<1>>, <<>>) >>,
    << SP("MinFix64", D(<<0>>, <<1000>>)), N(<<0>>, <<1000>>) >>,
    << SP("MinFix64", D(<<0>>, <<0100>>)), N(<<0>>, <<0100>>) >>,
    << SP("MinFix64", D(<<0>>, <<0010>>)), N(<<0>>, <<0010>>) >>,
    << SP("MinFix64", D(<<0>>, <<0001>>)), N(<<0>>, <<0001>>) >>,
    << SP("MinFix64", D(<<0>>, <<0000, 1000>>)), N(<<0>>, <<0000, 1000>>) >>,
    << SP("MinFix64", D(<<0>>, <<0000, 0100>>)), N(<<0>>, <<0000, 0100>>) >>,
    << SP("MinFix64", D(<<0>>, <<0000, 0010>>)), N(<<0>>, <<0000, 0010>>) >>,
    << SP("MinFix64", D(<<0>>, <<0000, 0001>>)), N(<<0>>, <<0000, 0001>>) >>,
    << S("MinFix64"), D(<<1>>, <<>>) >>,
    << S("MinFix64"), D(<<0>>, <<1000>>) >>,
    << S("MinFix64"), D(<<0>>, <<0100>>) >>,
    << S("MinFix64"), D(<<0>>, <<0010>>) >>,
    << S("MinFix64"), D(<<0>>, <<0001>>) >>,
    << S("MinFix64"), D(<<0>>, <<0000, 1000>>) >>,
    << S("MinFix64"), D(<<0>>, <<0000, 0100>>) >>,
    << S("MinFix64"), D(<<0>>, <<0000, 0010>>) >>,
    << S("MinFix64"), D(<<0>>, <<0000, 0001>>) >>,
    << D(<<0>>, <<>>), S("MinFix64") >>,
    << N(<<0>>, <<1000>>), SP("MinFix64", D(<<0>>, <<1000>>)) >>,
    << N(<<0>>, <<0100>>), SP("MinFix64", D(<<0>>, <<0100>>)) >>,
    << N(<<0>>, <<0010>>), SP("MinFix64", D(<<0>>, <<0010>>)) >>,
    << N(<<0>>, <<0001>>), SP("MinFix64", D(<<0>>, <<0001>>)) >>,
    << N(<<0>>, <<0000, 1000>>), SP("MinFix64", D(<<0>>, <<0000, 1000>>)) >>,
    << N(<<0>>, <<0000, 0100>>), SP("MinFix64", D(<<0>>, <<0000, 0100>>)) >>,
    << N(<<0>>, <<0000, 0010>>), SP("MinFix64", D(<<0>>, <<0000, 0010>>)) >>,
    << N(<<0>>, <<0000, 0001>>), SP("MinFix64", D(<<0>>, <<0000, 0001>>)) >>,
    << S("HalfMinFix64"), S("HalfMinFix64") >>,
    << SP("HalfMinFix64", D(<<0>>, <<0000, 0001>>)), SM("HalfMinFix64", D(<<0>>, <<0000, 0001>>)) >>
>>

\* generators/add64.py lines 303-323
AddFix64OverflowTests == <<
    << S("MaxFix64"), D(<<1>>, <<>>) >>,
    << S("MaxFix64"), D(<<0>>, <<1000>>) >>,
    << S("MaxFix64"), D(<<0>>, <<0100>>) >>,
    << S("MaxFix64"), D(<<0>>, <<0010>>) >>,
    << S("MaxFix64"), D(<<0>>, <<0001>>) >>,
    << S("MaxFix64"), D(<<0>>, <<0000, 1000>>) >>,
    << S("MaxFix64"), D(<<0>>, <<0000, 0100>>) >>,
    << S("MaxFix64"), D(<<0>>, <<0000, 0010>>) >>,
    << S("MaxFix64"), D(<<0>>, <<0000, 0001>>) >>,
    << S("MaxFix64"), S("MaxFix64") >>,
    << S("HalfMaxFix64"), SP("HalfMaxFix64", D(<<1>>, <<>>)) >>,
    << S("HalfMaxFix64"), SP("HalfMaxFix64", D(<<0>>, <<1000>>)) >>,
    << S("HalfMaxFix64"), SP("HalfMaxFix64", D(<<0>>, <<0100>>)) >>,
    << S("HalfMaxFix64"), SP("HalfMaxFix64", D(<<0>>, <<0010>>)) >>,
    << S("HalfMaxFix64"), SP("HalfMaxFix64", D(<<0>>, <<0001>>)) >>,
    << S("HalfMaxFix64"), SP("HalfMaxFix64", D(<<0>>, <<0000, 1000>>)) >>,
    << S("HalfMaxFix64"), SP("HalfMaxFix64", D(<<0>>, <<0000, 0100>>)) >>,
    << S("HalfMaxFix64"), SP("HalfMaxFix64", D(<<0>>, <<0000, 0010>>)) >>,
    << SP("HalfMaxFix64", D(<<0>>, <<0000, 0001>>)), SP("HalfMaxFix64", D(<<0>>, <<0000, 0001>>)) >>
>>

\* generators/add64.py lines 325-344
AddFix64NegOverflowTests == <<
    << S("MinFix64"), N(<<1>>, <<>>) >>,
    << S("MinFix64"), N(<<0>>, <<1000>>) >>,
    << S("MinFix64"), N(<<0>>, <<0100>>) >>,
    << S("MinFix64"), N(<<0>>, <<0010>>) >>,
    << S("MinFix64"), N(<<0>>, <<0001>>) >>,
    << S("MinFix64"), N(<<0>>, <<0000, 1000>>) >>,
    << S("MinFix64"), N(<<0>>, <<0000, 0100>>) >>,
    << S("MinFix64"), N(<<0>>, <<0000, 0010>>) >>,
    << S("MinFix64"), N(<<0>>, <<0000, 0001>>) >>,
    << S("MinFix64"), S("MinFix64") >>,
    << S("HalfMinFix64"), SM("HalfMinFix64", D(<<1>>, <<>>)) >>,
    << S("HalfMinFix64"), SM("HalfMinFix64", D(<<0>>, <<1000>>)) >>,
    << S("HalfMinFix64"), SM("HalfMinFix64", D(<<0>>, <<0100>>)) >>,
    << S("HalfMinFix64"), SM("HalfMinFix64", D(<<0>>, <<0010>>)) >>,
    << S("HalfMinFix64"), SM("HalfMinFix64", D(<<0>>, <<0001>>)) >>,
    << S("HalfMinFix64"), SM("HalfMinFix64", D(<<0>>, <<0000, 1000>>)) >>,
    << S("HalfMinFix64"), SM("HalfMinFix64", D(<<0>>, <<0000, 0100>>)) >>,
    << S("HalfMinFix64"), SM("HalfMinFix64", D(<<0>>, <<0000, 0010>>)) >>
>>

\* generators/add128.py lines 7-41
AddUFix128Tests == <<
    << D(<<1>>, <<>>), D(<<1>>, <<>>) >>,
    << D(<<1>>, <<>>), D(<<0>>, <<>>) >>,
    << D(<<0>>, <<>>), D(<<0>>, <<>>) >>,
    << D(<<0>>, <<>>), D(<<1>>, <<>>) >>,
    << D(<<1>>, <<>>), D(<<1, 0000, 0000>>, <<>>) >>,
    << D(<<1>>, <<>>), D(<<1, 0000, 0001>>, <<>>) >>,
    << D(<<123>>, <<4560>>), D(<<789>>, <<0120>>) >>,
    << D(<<456>>, <<7890>>), D(<<123>>, <<4560>>) >>,
    << D(<<0>>, <<0001, 2300>>), D(<<0>>, <<0004, 5600>>) >>,
    << D(<<0>>, <<0007, 8900>>), D(<<0>>, <<0003, 2100>>) >>,
    << D(<<9, 8765>>, <<4321>>), D(<<1, 2345>>, <<6789>>) >>,
    << D(<<3, 1415>>, <<9265>>), D(<<2, 7182>>, <<8182>>) >>,
    << D(<<2, 7182>>, <<8182>>), D(<<3, 1415>>, <<9265>>) >>,
    << D(<<1>>, <<2345, 6789>>), D(<<0>>, <<9876, 5432>>) >>,
    << D(<<0>>, <<9999, 9999>>), D(<<0>>, <<0000, 0001>>) >>,
    << D(<<0>>, <<9999, 9999, 9999, 9999, 9999, 9999>>), D(<<0>>, <<0000, 0000, 0000, 0000, 0000, 0001>>) >>,
    << SM("MaxUFix128", D(<<1>>, <<>>)), D(<<1>>, <<>>) >>,
    << SM("MaxUFix128", D(<<0>>, <<1000>>)), D(<<0>>, <<1000>>) >>,
    << SM("MaxUFix128", D(<<0>>, <<0100>>)), D(<<0>>, <<0100>>) >>,
    << SM("MaxUFix128", D(<<0>>, <<0010>>)), D(<<0>>, <<0010>>) >>,
    << SM("MaxUFix128", D(<<0>>, <<0001>>)), D(<<0>>, <<0001>>) >>,
    << SM("MaxUFix128", D(<<0>>, <<0000, 1000>>)), D(<<0>>, <<0000, 1000>>) >>,
    << SM("MaxUFix128", D(<<0>>, <<0000, 0100>>)), D(<<0>>, <<0000, 0100>>) >>,
    << SM("MaxUFix128", D(<<0>>, <<0000, 0010>>)), D(<<0>>, <<0000, 0010>>) >>,
    << SM("MaxUFix128", D(<<0>>, <<0000, 0001>>)), D(<<0>>, <<0000, 0001>>) >>,
    << S("HalfMaxUFix128"), S("HalfMaxUFix128") >>,
    << SP("HalfMaxUFix128", D(<<0>>, <<0000, 0000, 0000, 0000, 0000, 0001>>)), S("HalfMaxUFix128") >>,
    << S("HalfMaxUFix128"), SP("HalfMaxUFix128", D(<<0>>, <<0000, 0000, 0000, 0000, 0000, 0001>>)) >>
>>

\* generators/add128.py lines 43-63
AddUFix128OverflowTests == <<
    << S("MaxUFix128"), D(<<1>>, <<>>) >>,
    << S("MaxUFix128"), D(<<0>>, <<0100>>) >>,
    << S("MaxUFix128"), D(<<0>>, <<0010>>) >>,
    << S("MaxUFix128"), D(<<0>>, <<0000, 1000>>) >>,
    << S("MaxUFix128"), D(<<0>>, <<0000, 0010>>) >>,
    << S("MaxUFix128"), D(<<0>>, <<0000, 0001>>) >>,
    << S("MaxUFix128"), D(<<0>>, <<0000, 0000, 0000, 0000, 0000, 0001>>) >>,
    << S("MaxUFix128"), S("MaxUFix128") >>,
    << S("HalfMaxUFix128"), SP("HalfMaxUFix128", D(<<1>>, <<>>)) >>,
    << S("HalfMaxUFix128"), SP("HalfMaxUFix128", D(<<0>>, <<1000>>)) >>,
    << S("HalfMaxUFix128"), SP("HalfMaxUFix128", D(<<0>>, <<0100>>)) >>,
    << S("HalfMaxUFix128"), SP("HalfMaxUFix128", D(<<0>>, <<0010>>)) >>,
    << S("HalfMaxUFix128"), SP("HalfMaxUFix128", D(<<0>>, <<0001>>)) >>,
    << S("HalfMaxUFix128"), SP("HalfMaxUFix128", D(<<0>>, <<0000, 1000>>)) >>,
    << S("HalfMaxUFix128"), SP("HalfMaxUFix128", D(<<0>>, <<0000, 0100>>)) >>,
    << S("HalfMaxUFix128"), SP("HalfMaxUFix128", D(<<0>>, <<0000, 0000, 0000, 0000, 0000, 0010>>)) >>,
    << SP("HalfMaxUFix128", D(<<0>>, <<0000, 0000, 0000, 0000, 0000, 0001>>)), SP("HalfMaxUFix128", D(<<0>>, <<0000, 0000, 0000, 0000, 0000, 0001>>)) >>,
    << SP("HalfMaxUFix128", D(<<0>>, <<0000, 0000, 0000, 0000, 0000, 0002>>)), S("HalfMaxUFix128") >>,
    << S("HalfMaxUFix128"), SP("HalfMaxUFix128", D(<<0>>, <<0000, 0000, 0000, 0000, 0000, 0002>>)) >>
>>

\* generators/add128.py lines 65-154
AddFix128Tests == <<
    << D(<<1>>, <<>>), D(<<1>>, <<>>) >>,
    << D(<<1>>, <<>>), D(<<0>>, <<>>) >>,
    << D(<<0>>, <<>>), D(<<0>>, <<>>) >>,
    << D(<<0>>, <<>>), D(<<1>>, <<>>) >>,
    << D(<<1>>, <<>>), D(<<2>>, <<>>) >>,
    << N(<<1>>, <<>>), D(<<2>>, <<>>) >>,
    << D(<<1>>, <<>>), N(<<2>>, <<>>) >>,
    << N(<<1>>, <<>>), N(<<2>>, <<>>) >>,
    << D(<<1>>, <<>>), D(<<1, 0000, 0000>>, <<>>) >>,
    << D(<<1>>, <<>>), D(<<1, 0000, 0001>>, <<>>) >>,
    << D(<<1>>, <<>>), D(<<9999, 9999>>, <<>>) >>,
    << D(<<123>>, <<4560>>), D(<<789>>, <<0120>>) >>,
    << N(<<456>>, <<7890>>), D(<<123>>, <<4560>>) >>,
    << D(<<0>>, <<0001, 2300>>), D(<<0>>, <<0004, 5600>>) >>,
    << N(<<0>>, <<0007, 8900>>), D(<<0>>, <<0003, 2100>>) >>,
    << D(<<9, 8765>>, <<4321>>), N(<<1, 2345>>, <<6789>>) >>,
    << D(<<3, 1415>>, <<9265>>), D(<<2, 7182>>, <<8182>>) >>,
    << N(<<2, 7182>>, <<8182>>), N(<<3, 1415>>, <<9265>>) >>,
    << D(<<1>>, <<2345, 6789>>), N(<<0>>, <<9876, 5432>>) >>,
    << D(<<0>>, <<9999, 9999>>), D(<<0>>, <<0000, 0001>>) >>,
    << N(<<0>>, <<9999, 9999>>), N(<<0>>, <<0000, 0001>>) >>,
    << SM("MaxFix128", D(<<1>>, <<>>)), D(<<1>>, <<>>) >>,
    << SM("MaxFix128", D(<<0>>, <<1000>>)), D(<<0>>, <<1000>>) >>,
    << SM("MaxFix128", D(<<0>>, <<0100>>)), D(<<0>>, <<0100>>) >>,
    << SM("MaxFix128", D(<<0>>, <<0010>>)), D(<<0>>, <<0010>>) >>,
    << SM("MaxFix128", D(<<0>>, <<0001>>)), D(<<0>>, <<0001>>) >>,
    << SM("MaxFix128", D(<<0>>, <<0000, 1000>>)), D(<<0>>, <<0000, 1000>>) >>,
    << SM("MaxFix128", D(<<0>>, <<0000, 0100>>)), D(<<0>>, <<0000, 0100>>) >>,
    << SM("MaxFix128", D(<<0>>, <<0000, 0010>>)), D(<<0>>, <<0000, 0010>>) >>,
    << SM("MaxFix128", D(<<0>>, <<0000, 0001>>)), D(<<0>>, <<0000, 0001>>) >>,
    << SM("MaxFix128", D(<<0>>, <<0000, 0000, 0000, 0000, 0000, 0001>>)), D(<<0>>, <<0000, 0000, 0000, 0000, 0000, 0001>>) >>,
    << S("HalfMaxFix128"), S("HalfMaxFix128") >>,
    << SP("HalfMaxFix128", D(<<0>>, <<0000, 0000, 0000, 0000, 0000, 0001>>)), S("HalfMaxFix128") >>,
    << S("HalfMaxFix128"), SP("HalfMaxFix128", D(<<0>>, <<0000, 0000, 0000, 0000, 0000, 0001>>)) >>,
    << S("MaxFix128"), N(<<1>>, <<>>) >>,
    << S("MaxFix128"), D(<<0>>, <<>>) >>,
    << S("MaxFix128"), N(<<0>>, <<1000>>) >>,
    << S("MaxFix128"), N(<<0>>, <<0100>>) >>,
    << S("MaxFix128"), N(<<0>>, <<0010>>) >>,
    << S("MaxFix128"), N(<<0>>, <<0001>>) >>,
    << S("MaxFix128"), N(<<0>>, <<0000, 1000>>) >>,
    << S("MaxFix128"), N(<<0>>, <<0000, 0100>>) >>,
    << S("MaxFix128"), N(<<0>>, <<0000, 0010>>) >>,
    << S("MaxFix128"), N(<<0>>, <<0000, 0001>>) >>,
    << S("HalfMaxFix128"), S("HalfMaxFix128") >>,
    << SP("MinFix128", D(<<1>>, <<>>)), N(<<1>>, <<>>) >>,
    << SP("MinFix128", D(<<0>>, <<1000>>)), N(<<0>>, <<1000>>) >>,
    << SP("MinFix128", D(<<0>>, <<0100>>)), N(<<0>>, <<0100>>) >>,
    << SP("MinFix128", D(<<0>>, <<0010>>)), N(<<0>>, <<0010>>) >>,
    << SP("MinFix128", D(<<0>>, <<0001>>)), N(<<0>>, <<0001>>) >>,
    << SP("MinFix128", D(<<0>>, <<0000, 1000>>)), N(<<0>>, <<0000, 1000>>) >>,
    << SP("MinFix128", D(<<0>>, <<0000, 0100>>)), N(<<0>>, <<0000, 0100>>) >>,
    << SP("MinFix128", D(<<0>>, <<0000, 0010>>)), N(<<0>>, <<0000, 0010>>) >>,
    << SP("MinFix128", D(<<0>>, <<0000, 0001>>)), N(<<0>>, <<0000, 0001>>) >>,
    << SP("MinFix128", D(<<0>>, <<0000, 0000, 0000, 0000, 0000, 0001>>)), N(<<0>>, <<0000, 0000, 0000, 0000, 0000, 0001>>) >>,
    << S("MinFix128"), D(<<1>>, <<>>) >>,
    << S("MinFix128"), D(<<0>>, <<1000>>) >>,
    << S("MinFix128"), D(<<0>>, <<0100>>) >>,
    << S("MinFix128"), D(<<0>>, <<0010>>) >>,
    << S("MinFix128"), D(<<0>>, <<0001>>) >>,
    << S("MinFix128"), D(<<0>>, <<0000, 1000>>) >>,
    << S("MinFix128"), D(<<0>>, <<0000, 0100>>) >>,
    << S("MinFix128"), D(<<0>>, <<0000, 0010>>) >>,
    << S("MinFix128"), D(<<0>>, <<0000, 0001>>) >>,
    << S("MinFix128"), D(<<0>>, <<0000, 0000, 0000, 0000, 0000, 0001>>) >>,
    << D(<<0>>, <<>>), S("MinFix128") >>,
    << N(<<0>>, <<1000>>), SP("MinFix128", D(<<0>>, <<1000>>)) >>,
    << N(<<0>>, <<0100>>), SP("MinFix128", D(<<0>>, <<0100>>)) >>,
    << N(<<0>>, <<0010>>), SP("MinFix128", D(<<0>>, <<0010>>)) >>,
    << N(<<0>>, <<0001>>), SP("MinFix128", D(<<0>>, <<0001>>)) >>,
    << N(<<0>>, <<0000, 1000>>), SP("MinFix128", D(<<0>>, <<0000, 1000>>)) >>,
    << N(<<0>>, <<0000, 0100>>), SP("MinFix128", D(<<0>>, <<0000, 0100>>)) >>,
    << N(<<0>>, <<0000, 0010>>), SP("MinFix128", D(<<0>>, <<0000, 0010>>)) >>,
    << N(<<0>>, <<0000, 0001>>), SP("MinFix128", D(<<0>>, <<0000, 0001>>)) >>,
    << N(<<0>>, <<0000, 0000, 0000, 0000, 0000, 0001>>), SP("MinFix128", D(<<0>>, <<0000, 0000, 0000, 0000, 0000, 0001>>)) >>,
    << S("HalfMinFix128"), S("HalfMinFix128") >>,
    << SP("HalfMinFix128", D(<<0>>, <<0000, 0000, 0000, 0000, 0000, 0001>>)), SM("HalfMinFix128", D(<<0>>, <<0000, 0000, 0000, 0000, 0000, 0001>>)) >>
>>

\* generators/add128.py lines 156-178
AddFix128OverflowTests == <<
    << S("MaxFix128"), D(<<1>>, <<>>) >>,
    << S("MaxFix128"), D(<<0>>, <<1000>>) >>,
    << S("MaxFix128"), D(<<0>>, <<0100>>) >>,
    << S("MaxFix128"), D(<<0>>, <<0010>>) >>,
    << S("MaxFix128"), D(<<0>>, <<0001>>) >>,
    << S("MaxFix128"), D(<<0>>, <<0000, 1000>>) >>,
    << S("MaxFix128"), D(<<0>>, <<0000, 0100>>) >>,
    << S("MaxFix128"), D(<<0>>, <<0000, 0010>>) >>,
    << S("MaxFix128"), D(<<0>>, <<0000, 0001>>) >>,
    << S("MaxFix128"), D(<<0>>, <<0000, 0000, 0000, 0000, 0000, 0001>>) >>,
    << S("MaxFix128"), S("MaxFix128") >>,
    << S("HalfMaxFix128"), SP("HalfMaxFix128", D(<<1>>, <<>>)) >>,
    << S("HalfMaxFix128"), SP("HalfMaxFix128", D(<<0>>, <<1000>>)) >>,
    << S("HalfMaxFix128"), SP("HalfMaxFix128", D(<<0>>, <<0100>>)) >>,
    << S("HalfMaxFix128"), SP("HalfMaxFix128", D(<<0>>, <<0010>>)) >>,
    << S("HalfMaxFix128"), SP("HalfMaxFix128", D(<<0>>, <<0001>>)) >>,
    << S("HalfMaxFix128"), SP("HalfMaxFix128", D(<<0>>, <<0000, 1000>>)) >>,
    << S("HalfMaxFix128"), SP("HalfMaxFix128", D(<<0>>, <<0000, 0100>>)) >>,
    << S("HalfMaxFix128"), SP("HalfMaxFix128", D(<<0>>, <<0000, 0010>>)) >>,
    << S("HalfMaxFix128"), SP("HalfMaxFix128", D(<<0>>, <<0000, 0000, 0000, 0000, 0000, 0010>>)) >>,
    << SP("HalfMaxFix128", D(<<0>>, <<0000, 0000, 0000, 0000, 0000, 0001>>)), SP("HalfMaxFix128", D(<<0>>, <<0000, 0000, 0000, 0000, 0000, 0001>>)) >>
>>

\* generators/add128.py lines 180-201
AddFix128NegOverflowTests == <<
    << S("MinFix128"), N(<<1>>, <<>>) >>,
    << S("MinFix128"), N(<<0>>, <<1000>>) >>,
    << S("MinFix128"), N(<<0>>, <<0100>>) >>,
    << S("MinFix128"), N(<<0>>, <<0010>>) >>,
    << S("MinFix128"), N(<<0>>, <<0001>>) >>,
    << S("MinFix128"), N(<<0>>, <<0000, 1000>>) >>,
    << S("MinFix128"), N(<<0>>, <<0000, 0100>>) >>,
    << S("MinFix128"), N(<<0>>, <<0000, 0010>>) >>,
    << S("MinFix128"), N(<<0>>, <<0000, 0001>>) >>,
    << S("MinFix128"), N(<<0>>, <<0000, 0000, 0000, 0000, 0000, 0001>>) >>,
    << S("MinFix128"), S("MinFix128") >>,
    << S("HalfMinFix128"), SM("HalfMinFix128", D(<<1>>, <<>>)) >>,
    << S("HalfMinFix128"), SM("HalfMinFix128", D(<<0>>, <<1000>>)) >>,
    << S("HalfMinFix128"), SM("HalfMinFix128", D(<<0>>, <<0100>>)) >>,
    << S("HalfMinFix128"), SM("HalfMinFix128", D(<<0>>, <<0010>>)) >>,
    << S("HalfMinFix128"), SM("HalfMinFix128", D(<<0>>, <<0001>>)) >>,
    << S("HalfMinFix128"), SM("HalfMinFix128", D(<<0>>, <<0000, 1000>>)) >>,
    << S("HalfMinFix128"), SM("HalfMinFix128", D(<<0>>, <<0000, 0100>>)) >>,
    << S("HalfMinFix128"), SM("HalfMinFix128", D(<<0>>, <<0000, 0010>>)) >>,
    << S("HalfMinFix128"), SM("HalfMinFix128", D(<<0>>, <<0000, 0000, 0000, 0000, 0000, 0001>>)) >>
>>

\* generators/sub128.py lines 7-77
SubUFix128Tests == <<
    << D(<<1>>, <<>>), D(<<1>>, <<>>) >>,
    << D(<<1>>, <<>>), D(<<0>>, <<>>) >>,
    << D(<<0>>, <<>>), D(<<0>>, <<>>) >>,
    << D(<<1>>, <<>>), D(<<0>>, <<9999, 9999>>) >>,
    << D(<<1, 0000, 0000>>, <<>>), D(<<1, 0000, 0000>>, <<>>) >>,
    << D(<<1, 0000, 0000>>, <<>>), D(<<9999, 9999>>, <<>>) >>,
    << D(<<456>>, <<7890>>), D(<<123>>, <<4560>>) >>,
    << D(<<0>>, <<0004, 5600>>), D(<<0>>, <<0001, 2300>>) >>,
    << D(<<0>>, <<0007, 8900>>), D(<<0>>, <<0003, 2100>>) >>,
    << D(<<9, 8765>>, <<4321>>), D(<<1, 2345>>, <<6789>>) >>,
    << D(<<3, 1415>>, <<9265>>), D(<<2, 7182>>, <<8182>>) >>,
    << D(<<1>>, <<2345, 6789>>), D(<<0>>, <<9876, 5432>>) >>,
    << D(<<0>>, <<9999, 9999>>), D(<<0>>, <<0000, 0001>>) >>,
    << S("MaxUFix128"), D(<<1>>, <<>>) >>,
    << S("MaxUFix128"), D(<<0>>, <<1000>>) >>,
    << S("MaxUFix128"), D(<<0>>, <<0100>>) >>,
    << S("MaxUFix128"), D(<<0>>, <<0010>>) >>,
    << S("MaxUFix128"), D(<<0>>, <<0001>>) >>,
    << S("MaxUFix128"), D(<<0>>, <<0000, 1000>>) >>,
    << S("MaxUFix128"), D(<<0>>, <<0000, 0100>>) >>,
    << S("MaxUFix128"), D(<<0>>, <<0000, 0010>>) >>,
    << S("MaxUFix128"), D(<<0>>, <<0000, 0001>>) >>,
    << S("MaxUFix128"), D(<<0>>, <<0000, 0000, 0000, 0000, 0000, 0001>>) >>,
    << S("MaxUFix128"), D(<<0>>, <<>>) >>,
    << S("MaxUFix128"), S("HalfMaxUFix128") >>,
    << S("MaxUFix128"), S("MaxUFix128") >>,
    << S("MaxUFix128"), SM("MaxUFix128", D(<<0>>, <<0000, 0001>>)) >>,
    << S("MaxUFix128"), SM("MaxUFix128", D(<<0>>, <<0000, 0000, 0000, 0000, 0000, 0001>>)) >>,
    << S("HalfMaxUFix128"), S("HalfMaxUFix128") >>,
    << SP("HalfMaxUFix128", D(<<0>>, <<0000, 0000, 0000, 0000, 0000, 0001>>)), S("HalfMaxUFix128") >>,
    << S("HalfMaxUFix128"), SM("HalfMaxUFix128", D(<<0>>, <<0000, 0000, 0000, 0000, 0000, 0001>>)) >>,
    << D(<<1>>, <<>>), D(<<1>>, <<>>) >>,
    << D(<<1>>, <<>>), D(<<0>>, <<1000>>) >>,
    << D(<<1>>, <<>>), D(<<0>>, <<0100>>) >>,
    << D(<<1>>, <<>>), D(<<0>>, <<0010>>) >>,
    << D(<<1>>, <<>>), D(<<0>>, <<0001>>) >>,
    << D(<<1>>, <<>>), D(<<0>>, <<0000, 1000>>) >>,
    << D(<<1>>, <<>>), D(<<0>>, <<0000, 0100>>) >>,
    << D(<<1>>, <<>>), D(<<0>>, <<0000, 0010>>) >>,
    << D(<<1>>, <<>>), D(<<0>>, <<0000, 0001>>) >>,
    << D(<<1>>, <<>>), D(<<0>>, <<0000, 0000, 0000, 0000, 0000, 0001>>) >>,
    << D(<<1>>, <<0000, 0000, 0000, 0000, 0000, 0001>>), D(<<1>>, <<>>) >>,
    << D(<<1>>, <<0000, 0000, 0000, 0000, 0000, 0001>>), D(<<0>>, <<1000>>) >>,
    << D(<<1>>, <<0000, 0000, 0000, 0000, 0000, 0001>>), D(<<0>>, <<0100>>) >>,
    << D(<<1>>, <<0000, 0000, 0000, 0000, 0000, 0001>>), D(<<0>>, <<0010>>) >>,
    << D(<<1>>, <<0000, 0000, 0000, 0000, 0000, 0001>>), D(<<0>>, <<0001>>) >>,
    << D(<<1>>, <<0000, 0000, 0000, 0000, 0000, 0001>>), D(<<0>>, <<0000, 1000>>) >>,
    << D(<<1>>, <<0000, 0000, 0000, 0000, 0000, 0001>>), D(<<0>>, <<0000, 0100>>) >>,
    << D(<<1>>, <<0000, 0000, 0000, 0000, 0000, 0001>>), D(<<0>>, <<0000, 0010>>) >>,
    << D(<<1>>, <<0000, 0000, 0000, 0000, 0000, 0001>>), D(<<0>>, <<0000, 0001>>) >>,
    << D(<<1>>, <<0000, 0000, 0000, 0000, 0000, 0001>>), D(<<0>>, <<0000, 0000, 0000, 0000, 0000, 0001>>) >>,
    << D(<<0>>, <<1000>>), D(<<0>>, <<1000>>) >>,
    << D(<<0>>, <<0100>>), D(<<0>>, <<0100>>) >>,
    << D(<<0>>, <<0010>>), D(<<0>>, <<0010>>) >>,
    << D(<<0>>, <<0001>>), D(<<0>>, <<0001>>) >>,
    << D(<<0>>, <<0000, 1000>>), D(<<0>>, <<0000, 1000>>) >>,
    << D(<<0>>, <<0000, 0100>>), D(<<0>>, <<0000, 0100>>) >>,
    << D(<<0>>, <<0000, 0010>>), D(<<0>>, <<0000, 0010>>) >>,
    << D(<<0>>, <<0000, 0001>>), D(<<0>>, <<0000, 0001>>) >>,
    << D(<<0>>, <<0000, 0000, 0000, 0000, 0000, 0001>>), D(<<0>>, <<0000, 0000, 0000, 0000, 0000, 0001>>) >>
>>

\* generators/sub128.py lines 79-128
SubUFix128NegOverflowTests == <<
    << D(<<5>>, <<>>), D(<<7>>, <<>>) >>,
    << D(<<0>>, <<>>), D(<<1>>, <<>>) >>,
    << D(<<0>>, <<>>), D(<<0>>, <<1000>>) >>,
    << D(<<0>>, <<>>), D(<<0>>, <<0100>>) >>,
    << D(<<0>>, <<>>), D(<<0>>, <<0010>>) >>,
    << D(<<0>>, <<>>), D(<<0>>, <<0001>>) >>,
    << D(<<0>>, <<>>), D(<<0>>, <<0000, 1000>>) >>,
    << D(<<0>>, <<>>), D(<<0>>, <<0000, 0100>>) >>,
    << D(<<0>>, <<>>), D(<<0>>, <<0000, 0010>>) >>,
    << D(<<0>>, <<>>), D(<<0>>, <<0000, 0001>>) >>,
    << D(<<0>>, <<>>), D(<<0>>, <<0000, 0000, 0000, 0000, 0000, 0001>>) >>,
    << D(<<100>>, <<>>), D(<<100>>, <<1000>>) >>,
    << D(<<100>>, <<>>), D(<<100>>, <<0100>>) >>,
    << D(<<100>>, <<>>), D(<<100>>, <<0010>>) >>,
    << D(<<100>>, <<>>), D(<<100>>, <<0001>>) >>,
    << D(<<100>>, <<>>), D(<<100>>, <<0000, 1000>>) >>,
    << D(<<100>>, <<>>), D(<<100>>, <<0000, 0100>>) >>,
    << D(<<100>>, <<>>), D(<<100>>, <<0000, 0010>>) >>,
    << D(<<100>>, <<>>), D(<<100>>, <<0000, 0001>>) >>,
    << D(<<100>>, <<>>), D(<<100>>, <<0000, 0000, 0000, 0000, 0000, 0001>>) >>,
    << SM("MaxUFix128", D(<<1>>, <<>>)), S("MaxUFix128") >>,
    << SM("MaxUFix128", D(<<0>>, <<1000>>)), S("MaxUFix128") >>,
    << SM("MaxUFix128", D(<<0>>, <<0100>>)), S("MaxUFix128") >>,
    << SM("MaxUFix128", D(<<0>>, <<0010>>)), S("MaxUFix128") >>,
    << SM("MaxUFix128", D(<<0>>, <<0001>>)), S("MaxUFix128") >>,
    << SM("MaxUFix128", D(<<0>>, <<0000, 1000>>)), S("MaxUFix128") >>,
    << SM("MaxUFix128", D(<<0>>, <<0000, 0100>>)), S("MaxUFix128") >>,
    << SM("MaxUFix128", D(<<0>>, <<0000, 0010>>)), S("MaxUFix128") >>,
    << SM("MaxUFix128", D(<<0>>, <<0000, 0001>>)), S("MaxUFix128") >>,
    << SM("MaxUFix128", D(<<0>>, <<0000, 0000, 0000, 0000, 0000, 0001>>)), S("MaxUFix128") >>,
    << D(<<0>>, <<>>), S("MaxUFix128") >>,
    << D(<<1>>, <<>>), S("MaxUFix128") >>,
    << S("HalfMaxUFix128"), SP("HalfMaxUFix128", D(<<1>>, <<>>)) >>,
    << S("HalfMaxUFix128"), SP("HalfMaxUFix128", D(<<0>>, <<1000>>)) >>,
    << S("HalfMaxUFix128"), SP("HalfMaxUFix128", D(<<0>>, <<0100>>)) >>,
    << S("HalfMaxUFix128"), SP("HalfMaxUFix128", D(<<0>>, <<0010>>)) >>,
    << S("HalfMaxUFix128"), SP("HalfMaxUFix128", D(<<0>>, <<0001>>)) >>,
    << S("HalfMaxUFix128"), SP("HalfMaxUFix128", D(<<0>>, <<0000, 1000>>)) >>,
    << S("HalfMaxUFix128"), SP("HalfMaxUFix128", D(<<0>>, <<0000, 0100>>)) >>,
    << S("HalfMaxUFix128"), SP("HalfMaxUFix128", D(<<0>>, <<0000, 0010>>)) >>,
    << S("HalfMaxUFix128"), SP("HalfMaxUFix128", D(<<0>>, <<0000, 0001>>)) >>,
    << S("HalfMaxUFix128"), SP("HalfMaxUFix128", D(<<0>>, <<0000, 0000, 0000, 0000, 0000, 0001>>)) >>,
    << SP("HalfMaxUFix128", D(<<0>>, <<0000, 0000, 0000, 0000, 0000, 0001>>)), SP("HalfMaxUFix128", D(<<0>>, <<0000, 0000, 0000, 0000, 0000, 0002>>)) >>,
    << S("HalfMaxUFix128"), SP("HalfMaxUFix128", D(<<0>>, <<0000, 0000, 0000, 0000, 0000, 0002>>)) >>
>>

\* generators/sub128.py lines 130-221
SubFix128Tests == <<
    << D(<<1>>, <<>>), D(<<1>>, <<>>) >>,
    << D(<<1>>, <<>>), D(<<0>>, <<>>) >>,
    << D(<<0>>, <<>>), D(<<0>>, <<>>) >>,
    << D(<<0>>, <<>>), D(<<1>>, <<>>) >>,
    << D(<<1>>, <<>>), D(<<2>>, <<>>) >>,
    << N(<<1>>, <<>>), D(<<2>>, <<>>) >>,
    << D(<<1>>, <<>>), N(<<2>>, <<>>) >>,
    << N(<<1>>, <<>>), N(<<2>>, <<>>) >>,
    << D(<<1>>, <<>>), D(<<1, 0000, 0000>>, <<>>) >>,
    << D(<<1>>, <<>>), D(<<1, 0000, 0001>>, <<>>) >>,
    << D(<<1>>, <<>>), D(<<9999, 9999>>, <<>>) >>,
    << D(<<123>>, <<4560>>), D(<<789>>, <<0120>>) >>,
    << N(<<456>>, <<7890>>), D(<<123>>, <<4560>>) >>,
    << D(<<0>>, <<0001, 2300>>), D(<<0>>, <<0004, 5600>>) >>,
    << N(<<0>>, <<0007, 8900>>), D(<<0>>, <<0003, 2100>>) >>,
    << D(<<9, 8765>>, <<4321>>), N(<<1, 2345>>, <<6789>>) >>,
    << D(<<3, 1415>>, <<9265>>), D(<<2, 7182>>, <<8182>>) >>,
    << N(<<2, 7182>>, <<8182>>), N(<<3, 1415>>, <<9265>>) >>,
    << D(<<1>>, <<2345, 6789>>), N(<<0>>, <<9876, 5432>>) >>,
    << D(<<0>>, <<9999, 9999>>), D(<<0>>, <<0000, 0001>>) >>,
    << N(<<0>>, <<9999, 9999>>), N(<<0>>, <<0000, 0001>>) >>,
    << SM("MaxFix128", D(<<1>>, <<>>)), N(<<1>>, <<>>) >>,
    << SM("MaxFix128", D(<<0>>, <<1000>>)), N(<<0>>, <<1000>>) >>,
    << SM("MaxFix128", D(<<0>>, <<0100>>)), N(<<0>>, <<0100>>) >>,
    << SM("MaxFix128", D(<<0>>, <<0010>>)), N(<<0>>, <<0010>>) >>,
    << SM("MaxFix128", D(<<0>>, <<0001>>)), N(<<0>>, <<0001>>) >>,
    << SM("MaxFix128", D(<<0>>, <<0000, 1000>>)), N(<<0>>, <<0000, 1000>>) >>,
    << SM("MaxFix128", D(<<0>>, <<0000, 0100>>)), N(<<0>>, <<0000, 0100>>) >>,
    << SM("MaxFix128", D(<<0>>, <<0000, 0010>>)), N(<<0>>, <<0000, 0010>>) >>,
    << SM("MaxFix128", D(<<0>>, <<0000, 0001>>)), N(<<0>>, <<0000, 0001>>) >>,
    << SM("MaxFix128", D(<<0>>, <<0000, 0000, 0000, 0000, 0000, 0001>>)), N(<<0>>, <<0000, 0000, 0000, 0000, 0000, 0001>>) >>,
    << S("HalfMaxFix128"), S("HalfMinFix128") >>,
    << S("HalfMaxFix128"), SP("HalfMinFix128", D(<<0>>, <<0000, 0000, 0000, 0000, 0000, 0001>>)) >>,
    << S("MaxFix128"), D(<<1>>, <<>>) >>,
    << S("MaxFix128"), D(<<0>>, <<>>) >>,
    << S("MaxFix128"), D(<<0>>, <<1000>>) >>,
    << S("MaxFix128"), D(<<0>>, <<0100>>) >>,
    << S("MaxFix128"), D(<<0>>, <<0010>>) >>,
    << S("MaxFix128"), D(<<0>>, <<0001>>) >>,
    << S("MaxFix128"), D(<<0>>, <<0000, 1000>>) >>,
    << S("MaxFix128"), D(<<0>>, <<0000, 0100>>) >>,
    << S("MaxFix128"), D(<<0>>, <<0000, 0010>>) >>,
    << S("MaxFix128"), D(<<0>>, <<0000, 0001>>) >>,
    << S("MaxFix128"), D(<<0>>, <<0000, 0000, 0000, 0000, 0000, 0001>>) >>,
    << SP("MinFix128", D(<<1>>, <<>>)), D(<<1>>, <<>>) >>,
    << SP("MinFix128", D(<<0>>, <<1000>>)), D(<<0>>, <<1000>>) >>,
    << SP("MinFix128", D(<<0>>, <<0100>>)), D(<<0>>, <<0100>>) >>,
    << SP("MinFix128", D(<<0>>, <<0010>>)), D(<<0>>, <<0010>>) >>,
    << SP("MinFix128", D(<<0>>, <<0001>>)), D(<<0>>, <<0001>>) >>,
    << SP("MinFix128", D(<<0>>, <<0000, 1000>>)), D(<<0>>, <<0000, 1000>>) >>,
    << SP("MinFix128", D(<<0>>, <<0000, 0100>>)), D(<<0>>, <<0000, 0100>>) >>,
    << SP("MinFix128", D(<<0>>, <<0000, 0010>>)), D(<<0>>, <<0000, 0010>>) >>,
    << SP("MinFix128", D(<<0>>, <<0000, 0001>>)), D(<<0>>, <<0000, 0001>>) >>,
    << SP("MinFix128", D(<<0>>, <<0000, 0000, 0000, 0000, 0000, 0001>>)), D(<<0>>, <<0000, 0000, 0000, 0000, 0000, 0001>>) >>,
    << D(<<0>>, <<>>), S("MaxFix128") >>,
    << N(<<0>>, <<1000>>), SM("MaxFix128", D(<<0>>, <<1000>>)) >>,
    << N(<<0>>, <<0100>>), SM("MaxFix128", D(<<0>>, <<0100>>)) >>,
    << N(<<0>>, <<0010>>), SM("MaxFix128", D(<<0>>, <<0010>>)) >>,
    << N(<<0>>, <<0001>>), SM("MaxFix128", D(<<0>>, <<0001>>)) >>,
    << N(<<0>>, <<0000, 1000>>), SM("MaxFix128", D(<<0>>, <<0000, 1000>>)) >>,
    << N(<<0>>, <<0000, 0100>>), SM("MaxFix128", D(<<0>>, <<0000, 0100>>)) >>,
    << N(<<0>>, <<0000, 0010>>), SM("MaxFix128", D(<<0>>, <<0000, 0010>>)) >>,
    << N(<<0>>, <<0000, 0001>>), SM("MaxFix128", D(<<0>>, <<0000, 0001>>)) >>,
    << N(<<0>>, <<0000, 0000, 0000, 0000, 0000, 0001>>), SM("MaxFix128", D(<<0>>, <<0000, 0000, 0000, 0000, 0000, 0001>>)) >>,
    << N(<<1>>, <<>>), SM("MaxFix128", D(<<1>>, <<>>)) >>,
    << N(<<0>>, <<1000>>), SM("MaxFix128", D(<<0>>, <<1000>>)) >>,
    << N(<<0>>, <<0100>>), SM("MaxFix128", D(<<0>>, <<0100>>)) >>,
    << N(<<0>>, <<0010>>), SM("MaxFix128", D(<<0>>, <<0010>>)) >>,
    << N(<<0>>, <<0001>>), SM("MaxFix128", D(<<0>>, <<0001>>)) >>,
    << N(<<0>>, <<0000, 1000>>), SM("MaxFix128", D(<<0>>, <<0000, 1000>>)) >>,
    << N(<<0>>, <<0000, 0100>>), SM("MaxFix128", D(<<0>>, <<0000, 0100>>)) >>,
    << N(<<0>>, <<0000, 0010>>), SM("MaxFix128", D(<<0>>, <<0000, 0010>>)) >>,
    << N(<<0>>, <<0000, 0001>>), SM("MaxFix128", D(<<0>>, <<0000, 0001>>)) >>,
    << N(<<0>>, <<0000, 0000, 0000, 0000, 0000, 0001>>), SM("MaxFix128", D(<<0>>, <<0000, 0000, 0000, 0000, 0000, 0001>>)) >>,
    << SM("HalfMinFix128", D(<<0>>, <<0000, 0000, 0000, 0000, 0000, 0001>>)), S("HalfMaxFix128") >>,
    << S("HalfMinFix128"), SP("HalfMaxFix128", D(<<0>>, <<0000, 0000, 0000, 0000, 0000, 0001>>)) >>,
    << S("HalfMinFix128"), S("HalfMaxFix128") >>,
    << SP("HalfMaxFix128", D(<<0>>, <<0000, 0000, 0000, 0000, 0000, 0001>>)), SP("HalfMinFix128", D(<<0>>, <<0000, 0000, 0000, 0000, 0000, 0001>>)) >>,
    << SP("HalfMinFix128", D(<<0>>, <<0000, 0000, 0000, 0000, 0000, 0001>>)), SM("HalfMaxFix128", D(<<0>>, <<0000, 0000, 0000, 0000, 0000, 0001>>)) >>
>>

\* generators/sub128.py lines 223-245
SubFix128OverflowTests == <<
    << S("MaxFix128"), N(<<1>>, <<>>) >>,
    << S("MaxFix128"), N(<<0>>, <<1000>>) >>,
    << S("MaxFix128"), N(<<0>>, <<0100>>) >>,
    << S("MaxFix128"), N(<<0>>, <<0010>>) >>,
    << S("MaxFix128"), N(<<0>>, <<0001>>) >>,
    << S("MaxFix128"), N(<<0>>, <<0000, 1000>>) >>,
    << S("MaxFix128"), N(<<0>>, <<0000, 0100>>) >>,
    << S("MaxFix128"), N(<<0>>, <<0000, 0010>>) >>,
    << S("MaxFix128"), N(<<0>>, <<0000, 0001>>) >>,
    << S("MaxFix128"), N(<<0>>, <<0000, 0000, 0000, 0000, 0000, 0001>>) >>,
    << S("MaxFix128"), S("MinFix128") >>,
    << SP("HalfMaxFix128", D(<<1>>, <<>>)), S("HalfMinFix128") >>,
    << SP("HalfMaxFix128", D(<<0>>, <<1000>>)), S("HalfMinFix128") >>,
    << SP("HalfMaxFix128", D(<<0>>, <<0100>>)), S("HalfMinFix128") >>,
    << SP("HalfMaxFix128", D(<<0>>, <<0010>>)), S("HalfMinFix128") >>,
    << SP("HalfMaxFix128", D(<<0>>, <<0001>>)), S("HalfMinFix128") >>,
    << SP("HalfMaxFix128", D(<<0>>, <<0000, 1000>>)), S("HalfMinFix128") >>,
    << SP("HalfMaxFix128", D(<<0>>, <<0000, 0100>>)), S("HalfMinFix128") >>,
    << SP("HalfMaxFix128", D(<<0>>, <<0000, 0010>>)), S("HalfMinFix128") >>,
    << SP("HalfMaxFix128", D(<<0>>, <<0000, 0000, 0000, 0000, 0000, 0010>>)), S("HalfMinFix128") >>
>>

\* generators/sub128.py lines 247-270
SubFix128NegOverflowTests == <<
    << N(<<2>>, <<>>), S("MaxFix128") >>,
    << N(<<1>>, <<1000>>), S("MaxFix128") >>,
    << N(<<1>>, <<0100>>), S("MaxFix128") >>,
    << N(<<1>>, <<0010>>), S("MaxFix128") >>,
    << N(<<1>>, <<0001>>), S("MaxFix128") >>,
    << N(<<1>>, <<0000, 1000>>), S("MaxFix128") >>,
    << N(<<1>>, <<0000, 0100>>), S("MaxFix128") >>,
    << N(<<1>>, <<0000, 0010>>), S("MaxFix128") >>,
    << N(<<1>>, <<0000, 0001>>), S("MaxFix128") >>,
    << N(<<1>>, <<0000, 0000, 0000, 0000, 0000, 0001>>), S("MaxFix128") >>,
    << S("MinFix128"), D(<<1>>, <<>>) >>,
    << S("MinFix128"), D(<<0>>, <<1000>>) >>,
    << S("MinFix128"), D(<<0>>, <<0100>>) >>,
    << S("MinFix128"), D(<<0>>, <<0010>>) >>,
    << S("MinFix128"), D(<<0>>, <<0001>>) >>,
    << S("MinFix128"), D(<<0>>, <<0000, 1000>>) >>,
    << S("MinFix128"), D(<<0>>, <<0000, 0100>>) >>,
    << S("MinFix128"), D(<<0>>, <<0000, 0010>>) >>,
    << S("MinFix128"), D(<<0>>, <<0000, 0001>>) >>,
    << S("MinFix128"), D(<<0>>, <<0000, 0000, 0000, 0000, 0000, 0001>>) >>,
    << S("MinFix128"), S("MaxFix128") >>,
    << SM("HalfMinFix128", D(<<0>>, <<0000, 0000, 0000, 0000, 0000, 0001>>)), SP("HalfMaxFix128", D(<<0>>, <<0000, 0000, 0000, 0000, 0000, 0001>>)) >>
>>

\* generators/mul128.py lines 6-60
MulUFix128Tests == <<
    << D(<<1>>, <<>>), D(<<1>>, <<>>) >>,
    << D(<<1>>, <<>>), D(<<0>>, <<>>) >>,
    << D(<<0>>, <<>>), D(<<0>>, <<>>) >>,
    << D(<<1>>, <<>>), D(<<1, 0000, 0000>>, <<>>) >>,
    << D(<<1>>, <<>>), D(<<1, 0000, 0001>>, <<>>) >>,
    << D(<<1>>, <<>>), D(<<1, 0000, 0001>>, <<0000, 0001>>) >>,
    << D(<<3>>, <<>>), D(<<670, 0417>>, <<>>) >>,
    << D(<<3>>, <<>>), D(<<5>>, <<>>) >>,
    << D(<<3>>, <<>>), D(<<17>>, <<>>) >>,
    << D(<<3>>, <<>>), D(<<257>>, <<>>) >>,
    << D(<<3>>, <<>>), D(<<641>>, <<>>) >>,
    << D(<<3>>, <<>>), D(<<6, 5537>>, <<>>) >>,
    << D(<<123>>, <<4560>>), D(<<789>>, <<0120>>) >>,
    << D(<<456>>, <<7890>>), D(<<123>>, <<4560>>) >>,
    << D(<<0>>, <<0001, 2300>>), D(<<0>>, <<0004, 5600>>) >>,
    << D(<<0>>, <<0007, 8900>>), D(<<0>>, <<0003, 2100>>) >>,
    << D(<<9, 8765>>, <<4321>>), D(<<1, 2345>>, <<6789>>) >>,
    << D(<<3, 1415>>, <<9265>>), D(<<2, 7182>>, <<8182>>) >>,
    << D(<<1>>, <<2345, 6789>>), D(<<0>>, <<9876, 5432>>) >>,
    << D(<<0>>, <<9999, 9999>>), D(<<0>>, <<0000, 0001>>) >>,
    << D(<<0>>, <<0000, 0000, 1000>>), S("MaxUFix128") >>,
    << D(<<1844, 6744>>, <<0737, 0955, 1615>>), D(<<1844, 6744>>, <<0737, 0955, 1615>>) >>,
    << D(<<1844, 6744>>, <<0737, 0955, 1615, 9999, 9999, 9999>>), D(<<1844, 6744>>, <<0737, 0955, 1615, 9999, 9999, 9999>>) >>,
    << S("MaxUFix128"), D(<<1>>, <<>>) >>,
    << S("MaxUFix128"), D(<<0>>, <<1000>>) >>,
    << S("MaxUFix128"), D(<<0>>, <<0100>>) >>,
    << S("MaxUFix128"), D(<<0>>, <<0010>>) >>,
    << S("MaxUFix128"), D(<<0>>, <<0001>>) >>,
    << S("MaxUFix128"), D(<<0>>, <<0000, 1000>>) >>,
    << S("MaxUFix128"), D(<<0>>, <<0000, 0100>>) >>,
    << S("MaxUFix128"), D(<<0>>, <<0000, 0010>>) >>,
    << S("MaxUFix128"), D(<<0>>, <<0000, 0001>>) >>,
    << S("MaxUFix128"), D(<<0>>, <<0000, 0000, 0000, 0000, 0000, 0001>>) >>,
    << S("MaxUFix128"), D(<<0>>, <<>>) >>,
    << SM("MaxUFix128", D(<<1>>, <<>>)), D(<<1>>, <<>>) >>,
    << SM("MaxUFix128", D(<<0>>, <<0000, 0000, 0000, 0000, 0000, 0001>>)), D(<<0>>, <<0000, 0000, 0000, 0000, 0000, 0001>>) >>,
    << S("HalfMaxUFix128"), D(<<2>>, <<>>) >>,
    << D(<<0>>, <<0000, 0000, 0000, 0000, 0000, 0001>>), D(<<1>>, <<>>) >>,
    << D(<<0>>, <<0000, 0000, 0000, 0000, 0000, 0010>>), D(<<0>>, <<1000>>) >>,
    << D(<<0>>, <<0000, 0000, 0000, 0000, 0000, 0100>>), D(<<0>>, <<0100>>) >>,
    << D(<<0>>, <<0000, 0000, 0000, 0000, 0000, 1000>>), D(<<0>>, <<0010>>) >>,
    << D(<<0>>, <<0000, 0000, 0000, 0000, 0001>>), D(<<0>>, <<0001>>) >>,
    << D(<<0>>, <<0000, 0000, 0000, 0010>>), D(<<0>>, <<0000, 0000, 1000>>) >>,
    << D(<<0>>, <<0000, 0000, 0000, 0000, 0000, 0005>>), D(<<0>>, <<2000>>) >>,
    << D(<<0>>, <<0000, 0000, 0000, 0000, 0000, 0002>>), D(<<0>>, <<5000>>) >>
>>

\* generators/mul128.py lines 62-98
MulUFix128OverflowTests == <<
    << S("MaxUFix128"), D(<<1>>, <<1000>>) >>,
    << S("MaxUFix128"), D(<<1>>, <<0100>>) >>,
    << S("MaxUFix128"), D(<<1>>, <<0010>>) >>,
    << S("MaxUFix128"), D(<<1>>, <<0000, 1000>>) >>,
    << S("MaxUFix128"), D(<<1>>, <<0000, 0010>>) >>,
    << S("MaxUFix128"), D(<<1>>, <<0000, 0000, 0000, 0000, 0000, 0001>>) >>,
    << S("MaxUFix128"), S("MaxUFix128") >>,
    << D(<<1844, 6744>>, <<0737, 0955, 1616>>), D(<<1844, 6744>>, <<0737, 0955, 1616>>) >>,
    << D(<<340, 2823, 6692, 0938>>, <<4634, 6337, 4607, 4317, 6821, 1455>>), D(<<1>>, <<0000, 0000, 0000, 0000, 0000, 0001>>) >>,
    << D(<<34, 0282, 3669, 2093>>, <<8463, 4633, 7460, 7431, 7682, 1146>>), D(<<10>>, <<0000, 0000, 0000, 0000, 0000, 0001>>) >>,
    << D(<<3, 4028, 2366, 9209>>, <<3846, 3463, 3746, 0743, 1768, 2115>>), D(<<100>>, <<0000, 0000, 0000, 0000, 0000, 0001>>) >>,
    << D(<<3402, 8236, 6920>>, <<9384, 6346, 3374, 6074, 3176, 8212>>), D(<<1000>>, <<0000, 0000, 0000, 0000, 0000, 0001>>) >>,
    << D(<<340, 2823, 6692>>, <<0938, 4634, 6337, 4607, 4317, 6822>>), D(<<1, 0000>>, <<0000, 0000, 0000, 0000, 0000, 0001>>) >>,
    << D(<<34, 0282, 3669>>, <<2093, 8463, 4633, 7460, 7431, 7683>>), D(<<10, 0000>>, <<0000, 0000, 0000, 0000, 0000, 0001>>) >>,
    << D(<<3, 4028, 2366>>, <<9209, 3846, 3463, 3746, 0743, 1769>>), D(<<100, 0000>>, <<0000, 0000, 0000, 0000, 0000, 0001>>) >>,
    << D(<<3402, 8236>>, <<6920, 9384, 6346, 3374, 6074, 3177>>), D(<<1000, 0000>>, <<0000, 0000, 0000, 0000, 0000, 0001>>) >>,
    << D(<<340, 2823>>, <<6692, 0938, 4634, 6337, 4607, 4318>>), D(<<1, 0000, 0000>>, <<0000, 0000, 0000, 0000, 0000, 0001>>) >>,
    << D(<<34, 0282>>, <<3669, 2093, 8463, 4633, 7460, 7432>>), D(<<10, 0000, 0000>>, <<0000, 0000, 0000, 0000, 0000, 0001>>) >>,
    << D(<<3, 4028>>, <<2366, 9209, 3846, 3463, 3746, 0744>>), D(<<100, 0000, 0000>>, <<0000, 0000, 0000, 0000, 0000, 0001>>) >>,
    << D(<<3402>>, <<8236, 6920, 9384, 6346, 3374, 6075>>), D(<<1000, 0000, 0000>>, <<0000, 0000, 0000, 0000, 0000, 0001>>) >>,
    << D(<<340>>, <<2823, 6692, 0938, 4634, 6337, 4608>>), D(<<1, 0000, 0000, 0000>>, <<0000, 0000, 0000, 0000, 0000, 0001>>) >>,
    << D(<<34>>, <<0282, 3669, 2093, 8463, 4633, 7461>>), D(<<10, 0000, 0000, 0000>>, <<0000, 0000, 0000, 0000, 0000, 0001>>) >>,
    << D(<<3>>, <<4028, 2366, 9209, 3846, 3463, 3747>>), D(<<100, 0000, 0000, 0000>>, <<0000, 0000, 0000, 0000, 0000, 0001>>) >>,
    << S("HalfMaxUFix128"), D(<<2>>, <<0000, 0000, 0000, 0000, 0000, 0001>>) >>,
    << S("HalfMaxUFix128"), D(<<2>>, <<0000, 0001>>) >>,
    << S("HalfMaxUFix128"), D(<<2>>, <<0000, 0010>>) >>,
    << S("HalfMaxUFix128"), D(<<2>>, <<0000, 0100>>) >>,
    << S("HalfMaxUFix128"), D(<<2>>, <<0001>>) >>,
    << S("HalfMaxUFix128"), D(<<2>>, <<0010>>) >>,
    << S("HalfMaxUFix128"), D(<<2>>, <<0100>>) >>,
    << S("HalfMaxUFix128"), D(<<2>>, <<1000>>) >>
>>

\* generators/mul128.py lines 100-122
MulUFix128UnderflowTests == <<
    << D(<<0>>, <<0000, 0000, 0000, 0000, 0000, 0001>>), D(<<0>>, <<0000, 0000, 0000, 0000, 0000, 0001>>) >>,
    << D(<<0>>, <<0000, 0000, 0000, 0000, 0000, 0010>>), D(<<0>>, <<0000, 0000, 0000, 0000, 0000, 0010>>) >>,
    << D(<<0>>, <<0000, 0000, 0000, 0000, 0001>>), D(<<0>>, <<0000, 0000, 0000, 0000, 0001>>) >>,
    << D(<<0>>, <<0000, 0000, 0000, 0010>>), D(<<0>>, <<0000, 0000, 0000, 0010>>) >>,
    << D(<<0>>, <<0000, 0000, 0000, 9000>>), D(<<0>>, <<0000, 0000, 0000, 9000>>) >>,
    << D(<<0>>, <<0000, 0000, 0000, 0000, 0000, 0001>>), D(<<0>>, <<1000>>) >>,
    << D(<<0>>, <<0000, 0000, 0000, 0000, 0000, 0010>>), D(<<0>>, <<0100>>) >>,
    << D(<<0>>, <<0000, 0000, 0000, 0000, 0000, 0100>>), D(<<0>>, <<0010>>) >>,
    << D(<<0>>, <<0000, 0000, 0000, 0000, 0000, 1000>>), D(<<0>>, <<0001>>) >>,
    << D(<<0>>, <<0000, 0000, 0000, 0000, 0001>>), D(<<0>>, <<0000, 1000>>) >>,
    << D(<<0>>, <<0000, 0000, 0000, 0010>>), D(<<0>>, <<0000, 0000, 0100>>) >>,
    << D(<<0>>, <<0000, 0000, 0000, 0000, 0000, 0005>>), D(<<0>>, <<0200>>) >>,
    << D(<<0>>, <<0000, 0000, 0000, 0000, 0000, 0002>>), D(<<0>>, <<0500>>) >>,
    << D(<<0>>, <<9999, 9999, 9999, 9999, 9999, 9999>>), D(<<0>>, <<0000, 0000, 0000, 0000, 0000, 0001>>) >>,
    << D(<<0>>, <<0999, 9999, 9999, 9999, 9999, 9999>>), D(<<0>>, <<0000, 0000, 0000, 0000, 0000, 0010>>) >>,
    << D(<<0>>, <<0099, 9999, 9999, 9999, 9999, 9999>>), D(<<0>>, <<0000, 0000, 0000, 0000, 0000, 0100>>) >>,
    << D(<<0>>, <<0000, 0000, 0000, 0000, 0000, 0005>>), D(<<0>>, <<1999, 9999, 9999, 9999, 9999, 9999>>) >>,
    << D(<<0>>, <<0000, 0000, 0000, 0000, 0000, 0002>>), D(<<0>>, <<4999, 9999, 9999, 9999, 9999, 9999>>) >>
>>

\* generators/mul128.py lines 124-248
MulFix128Tests == <<
    << D(<<1>>, <<>>), D(<<1>>, <<>>) >>,
    << N(<<1>>, <<>>), N(<<1>>, <<>>) >>,
    << D(<<1>>, <<>>), N(<<1>>, <<>>) >>,
    << N(<<1>>, <<>>), D(<<1>>, <<>>) >>,
    << D(<<1>>, <<>>), D(<<0>>, <<>>) >>,
    << D(<<0>>, <<>>), D(<<0>>, <<>>) >>,
    << D(<<1>>, <<>>), D(<<1, 0000, 0000>>, <<>>) >>,
    << D(<<1>>, <<>>), D(<<1, 0000, 0001>>, <<>>) >>,
    << D(<<1>>, <<>>), D(<<100, 0000, 0000, 0000>>, <<0000, 0000, 0000, 0000, 0000, 0001>>) >>,
    << D(<<3>>, <<>>), N(<<670, 0417>>, <<>>) >>,
    << D(<<3>>, <<>>), D(<<5>>, <<>>) >>,
    << N(<<3>>, <<>>), D(<<17>>, <<>>) >>,
    << D(<<3>>, <<>>), D(<<257>>, <<>>) >>,
    << N(<<3>>, <<>>), D(<<641>>, <<>>) >>,
    << N(<<3>>, <<>>), N(<<6, 5537>>, <<>>) >>,
    << D(<<1304, 3817>>, <<8253, 3278, 1714, 7311, 7980>>), D(<<1304, 3817>>, <<8253, 3278, 1714, 7311, 7980>>) >>,
    << D(<<1304, 3817>>, <<8253, 3278, 1714, 7311, 7980, 0509>>), D(<<1304, 3817>>, <<8253, 3278, 1714, 7311, 7980, 0509>>) >>,
    << D(<<1304, 3817>>, <<8253, 3278, 1714, 7311, 7980>>), N(<<1304, 3817>>, <<8253, 3278, 1714, 7311, 7980>>) >>,
    << D(<<1304, 3817>>, <<8253, 3278, 1714, 7311, 7980, 0509>>), N(<<1304, 3817>>, <<8253, 3278, 1714, 7311, 7980, 0509>>) >>,
    << N(<<1304, 3817>>, <<8253, 3278, 1714, 7311, 7980>>), D(<<1304, 3817>>, <<8253, 3278, 1714, 7311, 7980>>) >>,
    << N(<<1304, 3817>>, <<8253, 3278, 1714, 7311, 7980, 0509>>), D(<<1304, 3817>>, <<8253, 3278, 1714, 7311, 7980, 0509>>) >>,
    << N(<<1304, 3817>>, <<8253, 3278, 1714, 7311, 7980>>), N(<<1304, 3817>>, <<8253, 3278, 1714, 7311, 7980>>) >>,
    << N(<<1304, 3817>>, <<8253, 3278, 1714, 7311, 7980, 0509>>), N(<<1304, 3817>>, <<8253, 3278, 1714, 7311, 7980, 0509>>) >>,
    << S("MaxFix128"), D(<<1>>, <<>>) >>,
    << S("MaxFix128"), D(<<0>>, <<1000>>) >>,
    << S("MaxFix128"), D(<<0>>, <<0100>>) >>,
    << S("MaxFix128"), D(<<0>>, <<0010>>) >>,
    << S("MaxFix128"), D(<<0>>, <<0001>>) >>,
    << S("MaxFix128"), D(<<0>>, <<0000, 1000>>) >>,
    << S("MaxFix128"), D(<<0>>, <<0000, 0100>>) >>,
    << S("MaxFix128"), D(<<0>>, <<0000, 0010>>) >>,
    << S("MaxFix128"), D(<<0>>, <<0000, 0001>>) >>,
    << S("MaxFix128"), D(<<0>>, <<0000, 0000, 0000, 0000, 0000, 0001>>) >>,
    << S("MaxFix128"), D(<<0>>, <<>>) >>,
    << SM("MaxFix128", D(<<1>>, <<>>)), D(<<1>>, <<>>) >>,
    << S("HalfMaxFix128"), D(<<2>>, <<>>) >>,
    << S("MaxFix128"), N(<<1>>, <<>>) >>,
    << S("MaxFix128"), N(<<0>>, <<1000>>) >>,
    << S("MaxFix128"), N(<<0>>, <<0100>>) >>,
    << S("MaxFix128"), N(<<0>>, <<0010>>) >>,
    << S("MaxFix128"), N(<<0>>, <<0001>>) >>,
    << S("MaxFix128"), N(<<0>>, <<0000, 1000>>) >>,
    << S("MaxFix128"), N(<<0>>, <<0000, 0100>>) >>,
    << S("MaxFix128"), N(<<0>>, <<0000, 0010>>) >>,
    << S("MaxFix128"), N(<<0>>, <<0000, 0001>>) >>,
    << S("MaxFix128"), N(<<0>>, <<0000, 0000, 0000, 0000, 0000, 0001>>) >>,
    << S("MaxFix128"), D(<<0>>, <<>>) >>,
    << SM("MaxFix128", D(<<1>>, <<>>)), N(<<1>>, <<>>) >>,
    << S("HalfMaxFix128"), N(<<2>>, <<>>) >>,
    << S("MinFix128"), D(<<1>>, <<>>) >>,
    << S("MinFix128"), D(<<0>>, <<1000>>) >>,
    << S("MinFix128"), D(<<0>>, <<0100>>) >>,
    << S("MinFix128"), D(<<0>>, <<0010>>) >>,
    << S("MinFix128"), D(<<0>>, <<0001>>) >>,
    << S("MinFix128"), D(<<0>>, <<0000, 1000>>) >>,
    << S("MinFix128"), D(<<0>>, <<0000, 0100>>) >>,
    << S("MinFix128"), D(<<0>>, <<0000, 0010>>) >>,
    << S("MinFix128"), D(<<0>>, <<0000, 0001>>) >>,
    << S("MinFix128"), D(<<0>>, <<0000, 0000, 0000, 0000, 0000, 0001>>) >>,
    << S("MinFix128"), D(<<0>>, <<>>) >>,
    << SP("MinFix128", D(<<1>>, <<>>)), D(<<1>>, <<>>) >>,
    << S("HalfMinFix128"), D(<<2>>, <<>>) >>,
    << SP("MinFix128", D(<<0>>, <<0000, 0000, 0000, 0000, 0000, 0001>>)), N(<<1>>, <<>>) >>,
    << S("MinFix128"), N(<<0>>, <<1000>>) >>,
    << S("MinFix128"), N(<<0>>, <<0100>>) >>,
    << S("MinFix128"), N(<<0>>, <<0010>>) >>,
    << S("MinFix128"), N(<<0>>, <<0001>>) >>,
    << S("MinFix128"), N(<<0>>, <<0000, 1000>>) >>,
    << S("MinFix128"), N(<<0>>, <<0000, 0100>>) >>,
    << S("MinFix128"), N(<<0>>, <<0000, 0010>>) >>,
    << S("MinFix128"), N(<<0>>, <<0000, 0001>>) >>,
    << S("MinFix128"), N(<<0>>, <<0000, 0000, 0000, 0000, 0000, 0001>>) >>,
    << S("MinFix128"), D(<<0>>, <<>>) >>,
    << SP("MinFix128", D(<<1>>, <<>>)), N(<<1>>, <<>>) >>,
    << SP("HalfMinFix128", D(<<0>>, <<0000, 0000, 0000, 0000, 0000, 0001>>)), N(<<2>>, <<>>) >>,
    << D(<<0>>, <<0000, 0000, 0000, 0000, 0000, 0001>>), D(<<1>>, <<>>) >>,
    << D(<<0>>, <<0000, 0000, 0000, 0000, 0000, 0010>>), D(<<0>>, <<1000>>) >>,
    << D(<<0>>, <<0000, 0000, 0000, 0000, 0000, 0100>>), D(<<0>>, <<0100>>) >>,
    << D(<<0>>, <<0000, 0000, 0000, 0000, 0000, 1000>>), D(<<0>>, <<0010>>) >>,
    << D(<<0>>, <<0000, 0000, 0000, 0000, 0001>>), D(<<0>>, <<0001>>) >>,
    << D(<<0>>, <<0000, 0000, 0000, 0010>>), D(<<0>>, <<0000, 0000, 1000>>) >>,
    << D(<<0>>, <<0000, 0000, 0000, 0000, 0000, 0005>>), D(<<0>>, <<2000>>) >>,
    << D(<<0>>, <<0000, 0000, 0000, 0000, 0000, 0002>>), D(<<0>>, <<5000>>) >>,
    << D(<<0>>, <<0000, 0000, 0000, 0000, 0000, 0001>>), N(<<1>>, <<>>) >>,
    << D(<<0>>, <<0000, 0000, 0000, 0000, 0000, 0010>>), N(<<0>>, <<1000>>) >>,
    << D(<<0>>, <<0000, 0000, 0000, 0000, 0000, 0100>>), N(<<0>>, <<0100>>) >>,
    << D(<<0>>, <<0000, 0000, 0000, 0000, 0000, 1000>>), N(<<0>>, <<0010>>) >>,
    << D(<<0>>, <<0000, 0000, 0000, 0000, 0001>>), N(<<0>>, <<0001>>) >>,
    << D(<<0>>, <<0000, 0000, 0000, 0010>>), N(<<0>>, <<0000, 0000, 1000>>) >>,
    << D(<<0>>, <<0000, 0000, 0000, 0000, 0000, 0005>>), N(<<0>>, <<2000>>) >>,
    << D(<<0>>, <<0000, 0000, 0000, 0000, 0000, 0002>>), N(<<0>>, <<5000>>) >>,
    << N(<<0>>, <<0000, 0000, 0000, 0000, 0000, 0001>>), D(<<1>>, <<>>) >>,
    << N(<<0>>, <<0000, 0000, 0000, 0000, 0000, 0010>>), D(<<0>>, <<1000>>) >>,
    << N(<<0>>, <<0000, 0000, 0000, 0000, 0000, 0100>>), D(<<0>>, <<0100>>) >>,
    << N(<<0>>, <<0000, 0000, 0000, 0000, 0000, 1000>>), D(<<0>>, <<0010>>) >>,
    << N(<<0>>, <<0000, 0000, 0000, 0000, 0001>>), D(<<0>>, <<0001>>) >>,
    << N(<<0>>, <<0000, 0000, 0000, 0010>>), D(<<0>>, <<0000, 0000, 1000>>) >>,
    << N(<<0>>, <<0000, 0000, 0000, 0000, 0000, 0005>>), D(<<0>>, <<2000>>) >>,
    << N(<<0>>, <<0000, 0000, 0000, 0000, 0000, 0002>>), D(<<0>>, <<5000>>) >>,
    << N(<<0>>, <<0000, 0000, 0000, 0000, 0000, 0001>>), N(<<1>>, <<>>) >>,
    << N(<<0>>, <<0000, 0000, 0000, 0000, 0000, 0010>>), N(<<0>>, <<1000>>) >>,
    << N(<<0>>, <<0000, 0000, 0000, 0000, 0000, 0100>>), N(<<0>>, <<0100>>) >>,
    << N(<<0>>, <<0000, 0000, 0000, 0000, 0000, 1000>>), N(<<0>>, <<0010>>) >>,
    << N(<<0>>, <<0000, 0000, 0000, 0000, 0001>>), N(<<0>>, <<0001>>) >>,
    << N(<<0>>, <<0000, 0000, 0000, 0010>>), N(<<0>>, <<0000, 0000, 1000>>) >>,
    << N(<<0>>, <<0000, 0000, 0000, 0000, 0000, 0005>>), N(<<0>>, <<2000>>) >>,
    << N(<<0>>, <<0000, 0000, 0000, 0000, 0000, 0002>>), N(<<0>>, <<5000>>) >>
>>

\* generators/mul128.py lines 250-276
MulFix128OverflowTests == <<
    << S("MaxFix128"), D(<<1>>, <<1000>>) >>,
    << S("MaxFix128"), D(<<1>>, <<0100>>) >>,
    << S("MaxFix128"), D(<<1>>, <<0010>>) >>,
    << S("MaxFix128"), D(<<1>>, <<0000, 1000>>) >>,
    << S("MaxFix128"), D(<<1>>, <<0000, 0010>>) >>,
    << S("MaxFix128"), D(<<1>>, <<0000, 0000, 0000, 0000, 0000, 0001>>) >>,
    << S("MaxFix128"), S("MaxFix128") >>,
    << S("HalfMaxFix128"), SP("HalfMaxFix128", D(<<1>>, <<>>)) >>,
    << S("HalfMaxFix128"), SP("HalfMaxFix128", D(<<0>>, <<1000>>)) >>,
    << S("HalfMaxFix128"), SP("HalfMaxFix128", D(<<0>>, <<0100>>)) >>,
    << S("HalfMaxFix128"), SP("HalfMaxFix128", D(<<0>>, <<0010>>)) >>,
    << S("HalfMaxFix128"), SP("HalfMaxFix128", D(<<0>>, <<0001>>)) >>,
    << S("HalfMaxFix128"), SP("HalfMaxFix128", D(<<0>>, <<0000, 1000>>)) >>,
    << S("HalfMaxFix128"), SP("HalfMaxFix128", D(<<0>>, <<0000, 0100>>)) >>,
    << S("HalfMaxFix128"), SP("HalfMaxFix128", D(<<0>>, <<0000, 0000, 0000, 0000, 0000, 0010>>)) >>,
    << SP("HalfMaxFix128", D(<<0>>, <<0000, 0001>>)), SP("HalfMaxFix128", D(<<0>>, <<0000, 0001>>)) >>,
    << S("HalfMinFix128"), SP("HalfMinFix128", D(<<1>>, <<>>)) >>,
    << S("HalfMinFix128"), SP("HalfMinFix128", D(<<0>>, <<1000>>)) >>,
    << S("HalfMinFix128"), SP("HalfMinFix128", D(<<0>>, <<0100>>)) >>,
    << S("HalfMinFix128"), SP("HalfMinFix128", D(<<0>>, <<0010>>)) >>,
    << S("HalfMinFix128"), SP("HalfMinFix128", D(<<0>>, <<0001>>)) >>,
    << S("HalfMinFix128"), SP("HalfMinFix128", D(<<0>>, <<0000, 1000>>)) >>,
    << S("HalfMinFix128"), SP("HalfMinFix128", D(<<0>>, <<0000, 0100>>)) >>,
    << S("HalfMinFix128"), SP("HalfMinFix128", D(<<0>>, <<0000, 0010>>)) >>,
    << S("HalfMinFix128"), SP("HalfMinFix128", D(<<0>>, <<0000, 0000, 0000, 0000, 0000, 0001>>)) >>
>>

\* generators/mul128.py lines 278-363
MulFix128UnderflowTests == <<
    << D(<<0>>, <<0000, 0000, 0000, 0000, 0000, 0001>>), D(<<0>>, <<0000, 0000, 0000, 0000, 0000, 0001>>) >>,
    << D(<<0>>, <<0000, 0000, 0000, 0000, 0000, 0010>>), D(<<0>>, <<0000, 0000, 0000, 0000, 0000, 0010>>) >>,
    << D(<<0>>, <<0000, 0000, 0000, 0000, 0001>>), D(<<0>>, <<0000, 0000, 0000, 0000, 0001>>) >>,
    << D(<<0>>, <<0000, 0000, 0000, 0010>>), D(<<0>>, <<0000, 0000, 0000, 0010>>) >>,
    << D(<<0>>, <<0000, 0000, 0000, 9000>>), D(<<0>>, <<0000, 0000, 0000, 9000>>) >>,
    << D(<<0>>, <<0000, 0000, 0000, 0000, 0000, 0001>>), N(<<0>>, <<0000, 0000, 0000, 0000, 0000, 0001>>) >>,
    << D(<<0>>, <<0000, 0000, 0000, 0000, 0000, 0010>>), N(<<0>>, <<0000, 0000, 0000, 0000, 0000, 0010>>) >>,
    << D(<<0>>, <<0000, 0000, 0000, 0000, 0001>>), N(<<0>>, <<0000, 0000, 0000, 0000, 0001>>) >>,
    << D(<<0>>, <<0000, 0000, 0000, 0010>>), N(<<0>>, <<0000, 0000, 0000, 0010>>) >>,
    << D(<<0>>, <<0000, 0000, 0000, 9000>>), N(<<0>>, <<0000, 0000, 0000, 9000>>) >>,
    << N(<<0>>, <<0000, 0000, 0000, 0000, 0000, 0001>>), D(<<0>>, <<0000, 0000, 0000, 0000, 0000, 0001>>) >>,
    << N(<<0>>, <<0000, 0000, 0000, 0000, 0000, 0010>>), D(<<0>>, <<0000, 0000, 0000, 0000, 0000, 0010>>) >>,
    << N(<<0>>, <<0000, 0000, 0000, 0000, 0001>>), D(<<0>>, <<0000, 0000, 0000, 0000, 0001>>) >>,
    << N(<<0>>, <<0000, 0000, 0000, 0010>>), D(<<0>>, <<0000, 0000, 0000, 0010>>) >>,
    << N(<<0>>, <<0000, 0000, 0000, 9000>>), D(<<0>>, <<0000, 0000, 0000, 9000>>) >>,
    << N(<<0>>, <<0000, 0000, 0000, 0000, 0000, 0001>>), N(<<0>>, <<0000, 0000, 0000, 0000, 0000, 0001>>) >>,
    << N(<<0>>, <<0000, 0000, 0000, 0000, 0000, 0010>>), N(<<0>>, <<0000, 0000, 0000, 0000, 0000, 0010>>) >>,
    << N(<<0>>, <<0000, 0000, 0000, 0000, 0001>>), N(<<0>>, <<0000, 0000, 0000, 0000, 0001>>) >>,
    << N(<<0>>, <<0000, 0000, 0000, 0010>>), N(<<0>>, <<0000, 0000, 0000, 0010>>) >>,
    << N(<<0>>, <<0000, 0000, 0000, 9000>>), N(<<0>>, <<0000, 0000, 0000, 9000>>) >>,
    << D(<<0>>, <<0000, 0000, 0000, 0000, 0000, 0001>>), D(<<0>>, <<1000>>) >>,
    << D(<<0>>, <<0000, 0000, 0000, 0000, 0000, 0010>>), D(<<0>>, <<0100>>) >>,
    << D(<<0>>, <<0000, 0000, 0000, 0000, 0000, 0100>>), D(<<0>>, <<0010>>) >>,
    << D(<<0>>, <<0000, 0000, 0000, 0000, 0000, 1000>>), D(<<0>>, <<0001>>) >>,
    << D(<<0>>, <<0000, 0000, 0000, 0000, 0001>>), D(<<0>>, <<0000, 1000>>) >>,
    << D(<<0>>, <<0000, 0000, 0000, 0010>>), D(<<0>>, <<0000, 0000, 0100>>) >>,
    << D(<<0>>, <<0000, 0000, 0000, 0000, 0000, 0005>>), D(<<0>>, <<0200>>) >>,
    << D(<<0>>, <<0000, 0000, 0000, 0000, 0000, 0002>>), D(<<0>>, <<0500>>) >>,
    << D(<<0>>, <<0000, 0000, 0000, 0000, 0000, 0001>>), N(<<0>>, <<1000>>) >>,
    << D(<<0>>, <<0000, 0000, 0000, 0000, 0000, 0010>>), N(<<0>>, <<0100>>) >>,
    << D(<<0>>, <<0000, 0000, 0000, 0000, 0000, 0100>>), N(<<0>>, <<0010>>) >>,
    << D(<<0>>, <<0000, 0000, 0000, 0000, 0000, 1000>>), N(<<0>>, <<0001>>) >>,
    << D(<<0>>, <<0000, 0000, 0000, 0000, 0001>>), N(<<0>>, <<0000, 1000>>) >>,
    << D(<<0>>, <<0000, 0000, 0000, 0010>>), N(<<0>>, <<0000, 0000, 0100>>) >>,
    << D(<<0>>, <<0000, 0000, 0000, 0000, 0000, 0005>>), N(<<0>>, <<0200>>) >>,
    << D(<<0>>, <<0000, 0000, 0000, 0000, 0000, 0002>>), N(<<0>>, <<0500>>) >>,
    << N(<<0>>, <<0000, 0000, 0000, 0000, 0000, 0001>>), D(<<0>>, <<1000>>) >>,
    << N(<<0>>, <<0000, 0000, 0000, 0000, 0000, 0010>>), D(<<0>>, <<0100>>) >>,
    << N(<<0>>, <<0000, 0000, 0000, 0000, 0000, 0100>>), D(<<0>>, <<0010>>) >>,
    << N(<<0>>, <<0000, 0000, 0000, 0000, 0000, 1000>>), D(<<0>>, <<0001>>) >>,
    << N(<<0>>, <<0000, 0000, 0000, 0000, 0001>>), D(<<0>>, <<0000, 1000>>) >>,
    << N(<<0>>, <<0000, 0000, 0000, 0010>>), D(<<0>>, <<0000, 0000, 0100>>) >>,
    << N(<<0>>, <<0000, 0000, 0000, 0000, 0000, 0005>>), D(<<0>>, <<0200>>) >>,
    << N(<<0>>, <<0000, 0000, 0000, 0000, 0000, 0002>>), D(<<0>>, <<0500>>) >>,
    << N(<<0>>, <<0000, 0000, 0000, 0000, 0000, 0001>>), N(<<0>>, <<1000>>) >>,
    << N(<<0>>, <<0000, 0000, 0000, 0000, 0000, 0010>>), N(<<0>>, <<0100>>) >>,
    << N(<<0>>, <<0000, 0000, 0000, 0000, 0000, 0100>>), N(<<0>>, <<0010>>) >>,
    << N(<<0>>, <<0000, 0000, 0000, 0000, 0000, 1000>>), N(<<0>>, <<0001>>) >>,
    << N(<<0>>, <<0000, 0000, 0000, 0000, 0001>>), N(<<0>>, <<0000, 1000>>) >>,
    << N(<<0>>, <<0000, 0000, 0000, 0010>>), N(<<0>>, <<0000, 0000, 0100>>) >>,
    << N(<<0>>, <<0000, 0000, 0000, 0000, 0000, 0005>>), N(<<0>>, <<0200>>) >>,
    << N(<<0>>, <<0000, 0000, 0000, 0000, 0000, 0002>>), N(<<0>>, <<0500>>) >>,
    << D(<<0>>, <<9999, 9999, 9999, 9999, 9999, 9999>>), D(<<0>>, <<0000, 0000, 0000, 0000, 0000, 0001>>) >>,
    << D(<<0>>, <<0999, 9999, 9999, 9999, 9999, 9999>>), D(<<0>>, <<0000, 0000, 0000, 0000, 0000, 0010>>) >>,
    << D(<<0>>, <<0099, 9999, 9999, 9999, 9999, 9999>>), D(<<0>>, <<0000, 0000, 0000, 0000, 0000, 0100>>) >>,
    << D(<<0>>, <<0000, 0000, 0000, 0000, 0000, 0005>>), D(<<0>>, <<1999, 9999, 9999, 9999, 9999, 9999>>) >>,
    << D(<<0>>, <<0000, 0000, 0000, 0000, 0000, 0002>>), D(<<0>>, <<4999, 9999, 9999, 9999, 9999, 9999>>) >>,
    << D(<<0>>, <<9999, 9999, 9999, 9999, 9999, 9999>>), N(<<0>>, <<0000, 0000, 0000, 0000, 0000, 0001>>) >>,
    << D(<<0>>, <<0999, 9999, 9999, 9999, 9999, 9999>>), N(<<0>>, <<0000, 0000, 0000, 0000, 0000, 0010>>) >>,
    << D(<<0>>, <<0099, 9999, 9999, 9999, 9999, 9999>>), N(<<0>>, <<0000, 0000, 0000, 0000, 0000, 0100>>) >>,
    << D(<<0>>, <<0000, 0000, 0000, 0000, 0000, 0005>>), N(<<0>>, <<1999, 9999, 9999, 9999, 9999, 9999>>) >>,
    << D(<<0>>, <<0000, 0000, 0000, 0000, 0000, 0002>>), N(<<0>>, <<4999, 9999, 9999, 9999, 9999, 9999>>) >>,
    << N(<<0>>, <<9999, 9999, 9999, 9999, 9999, 9999>>), D(<<0>>, <<0000, 0000, 0000, 0000, 0000, 0001>>) >>,
    << N(<<0>>, <<0999, 9999, 9999, 9999, 9999, 9999>>), D(<<0>>, <<0000, 0000, 0000, 0000, 0000, 0010>>) >>,
    << N(<<0>>, <<0099, 9999, 9999, 9999, 9999, 9999>>), D(<<0>>, <<0000, 0000, 0000, 0000, 0000, 0100>>) >>,
    << N(<<0>>, <<0000, 0000, 0000, 0000, 0000, 0005>>), D(<<0>>, <<1999, 9999, 9999, 9999, 9999, 9999>>) >>,
    << N(<<0>>, <<0000, 0000, 0000, 0000, 0000, 0002>>), D(<<0>>, <<4999, 9999, 9999, 9999, 9999, 9999>>) >>,
    << N(<<0>>, <<9999, 9999, 9999, 9999, 9999, 9999>>), N(<<0>>, <<0000, 0000, 0000, 0000, 0000, 0001>>) >>,
    << N(<<0>>, <<0999, 9999, 9999, 9999, 9999, 9999>>), N(<<0>>, <<0000, 0000, 0000, 0000, 0000, 0010>>) >>,
    << N(<<0>>, <<0099, 9999, 9999, 9999, 9999, 9999>>), N(<<0>>, <<0000, 0000, 0000, 0000, 0000, 0100>>) >>,
    << N(<<0>>, <<0000, 0000, 0000, 0000, 0000, 0005>>), N(<<0>>, <<1999, 9999, 9999, 9999, 9999, 9999>>) >>,
    << N(<<0>>, <<0000, 0000, 0000, 0000, 0000, 0002>>), N(<<0>>, <<4999, 9999, 9999, 9999, 9999, 9999>>) >>
>>

\* generators/mul128.py lines 366-391
MulFix128NegOverflowTests == <<
    << S("MinFix128"), D(<<1>>, <<0000, 0000, 0000, 0000, 0000, 0001>>) >>,
    << S("MinFix128"), D(<<1>>, <<0000, 0001>>) >>,
    << S("MinFix128"), D(<<1>>, <<0000, 0010>>) >>,
    << S("MinFix128"), D(<<1>>, <<1000>>) >>,
    << S("MinFix128"), D(<<2>>, <<>>) >>,
    << S("MinFix128"), D(<<10>>, <<>>) >>,
    << S("MinFix128"), D(<<100>>, <<>>) >>,
    << S("MinFix128"), D(<<1000>>, <<>>) >>,
    << S("MinFix128"), D(<<1, 0000>>, <<>>) >>,
    << S("MinFix128"), D(<<10, 0000>>, <<>>) >>,
    << S("MinFix128"), D(<<100, 0000>>, <<>>) >>,
    << S("MinFix128"), D(<<1000, 0000>>, <<>>) >>,
    << S("MinFix128"), D(<<1, 0000, 0000>>, <<>>) >>,
    << S("MinFix128"), D(<<10, 0000, 0000>>, <<>>) >>,
    << S("MinFix128"), S("MaxFix128") >>,
    << S("HalfMaxFix128"), SP("HalfMinFix128", D(<<1>>, <<>>)) >>,
    << S("HalfMaxFix128"), SP("HalfMinFix128", D(<<0>>, <<1000>>)) >>,
    << S("HalfMaxFix128"), SP("HalfMinFix128", D(<<0>>, <<0100>>)) >>,
    << S("HalfMaxFix128"), SP("HalfMinFix128", D(<<0>>, <<0010>>)) >>,
    << S("HalfMaxFix128"), SP("HalfMinFix128", D(<<0>>, <<0001>>)) >>,
    << S("HalfMaxFix128"), SP("HalfMinFix128", D(<<0>>, <<0000, 1000>>)) >>,
    << S("HalfMaxFix128"), SP("HalfMinFix128", D(<<0>>, <<0000, 0100>>)) >>,
    << S("HalfMaxFix128"), SP("HalfMinFix128", D(<<0>>, <<0000, 0010>>)) >>,
    << S("HalfMaxFix128"), SP("HalfMinFix128", D(<<0>>, <<0000, 0000, 0000, 0000, 0000, 0001>>)) >>
>>

\* testgen/sub64.py lines 9-74
SubUFix64Tests == <<
    << D(<<1>>, <<>>), D(<<1>>, <<>>) >>,
    << D(<<1>>, <<>>), D(<<0>>, <<>>) >>,
    << D(<<0>>, <<>>), D(<<0>>, <<>>) >>,
    << D(<<1>>, <<>>), D(<<0>>, <<9999, 9999>>) >>,
    << D(<<1, 0000, 0000>>, <<>>), D(<<1, 0000, 0000>>, <<>>) >>,
    << D(<<1, 0000, 0000>>, <<>>), D(<<9999, 9999>>, <<>>) >>,
    << D(<<456>>, <<7890>>), D(<<123>>, <<4560>>) >>,
    << D(<<0>>, <<0004, 5600>>), D(<<0>>, <<0001, 2300>>) >>,
    << D(<<0>>, <<0007, 8900>>), D(<<0>>, <<0003, 2100>>) >>,
    << D(<<9, 8765>>, <<4321>>), D(<<1, 2345>>, <<6789>>) >>,
    << D(<<3, 1415>>, <<9265>>), D(<<2, 7182>>, <<8182>>) >>,
    << D(<<1>>, <<2345, 6789>>), D(<<0>>, <<9876, 5432>>) >>,
    << D(<<0>>, <<9999, 9999>>), D(<<0>>, <<0000, 0001>>) >>,
    << S("MaxUFix64"), D(<<1>>, <<>>) >>,
    << S("MaxUFix64"), D(<<0>>, <<1000>>) >>,
    << S("MaxUFix64"), D(<<0>>, <<0100>>) >>,
    << S("MaxUFix64"), D(<<0>>, <<0010>>) >>,
    << S("MaxUFix64"), D(<<0>>, <<0001>>) >>,
    << S("MaxUFix64"), D(<<0>>, <<0000, 1000>>) >>,
    << S("MaxUFix64"), D(<<0>>, <<0000, 0100>>) >>,
    << S("MaxUFix64"), D(<<0>>, <<0000, 0010>>) >>,
    << S("MaxUFix64"), D(<<0>>, <<0000, 0001>>) >>,
    << S("MaxUFix64"), D(<<0>>, <<>>) >>,
    << S("MaxUFix64"), S("HalfMaxUFix64") >>,
    << S("MaxUFix64"), S("MaxUFix64") >>,
    << S("MaxUFix64"), SM("MaxUFix64", D(<<0>>, <<0000, 0001>>)) >>,
    << S("HalfMaxUFix64"), S("HalfMaxUFix64") >>,
    << SP("HalfMaxUFix64", D(<<0>>, <<0000, 0001>>)), S("HalfMaxUFix64") >>,
    << S("HalfMaxUFix64"), SM("HalfMaxUFix64", D(<<0>>, <<0000, 0001>>)) >>,
    << D(<<1>>, <<>>), D(<<1>>, <<>>) >>,
    << D(<<1>>, <<>>), D(<<0>>, <<1000>>) >>,
    << D(<<1>>, <<>>), D(<<0>>, <<0100>>) >>,
    << D(<<1>>, <<>>), D(<<0>>, <<0010>>) >>,
    << D(<<1>>, <<>>), D(<<0>>, <<0001>>) >>,
    << D(<<1>>, <<>>), D(<<0>>, <<0000, 1000>>) >>,
    << D(<<1>>, <<>>), D(<<0>>, <<0000, 0100>>) >>,
    << D(<<1>>, <<>>), D(<<0>>, <<0000, 0010>>) >>,
    << D(<<1>>, <<>>), D(<<0>>, <<0000, 0001>>) >>,
    << D(<<1>>, <<0000, 0001>>), D(<<1>>, <<>>) >>,
    << D(<<1>>, <<0000, 0001>>), D(<<0>>, <<1000>>) >>,
    << D(<<1>>, <<0000, 0001>>), D(<<0>>, <<0100>>) >>,
    << D(<<1>>, <<0000, 0001>>), D(<<0>>, <<0010>>) >>,
    << D(<<1>>, <<0000, 0001>>), D(<<0>>, <<0001>>) >>,
    << D(<<1>>, <<0000, 0001>>), D(<<0>>, <<0000, 1000>>) >>,
    << D(<<1>>, <<0000, 0001>>), D(<<0>>, <<0000, 0100>>) >>,
    << D(<<1>>, <<0000, 0001>>), D(<<0>>, <<0000, 0010>>) >>,
    << D(<<1>>, <<0000, 0001>>), D(<<0>>, <<0000, 0001>>) >>,
    << D(<<0>>, <<1000>>), D(<<0>>, <<1000>>) >>,
    << D(<<0>>, <<0100>>), D(<<0>>, <<0100>>) >>,
    << D(<<0>>, <<0010>>), D(<<0>>, <<0010>>) >>,
    << D(<<0>>, <<0001>>), D(<<0>>, <<0001>>) >>,
    << D(<<0>>, <<0000, 1000>>), D(<<0>>, <<0000, 1000>>) >>,
    << D(<<0>>, <<0000, 0100>>), D(<<0>>, <<0000, 0100>>) >>,
    << D(<<0>>, <<0000, 0010>>), D(<<0>>, <<0000, 0010>>) >>,
    << D(<<0>>, <<0000, 0001>>), D(<<0>>, <<0000, 0001>>) >>
>>

\* testgen/sub64.py lines 76-119
SubUFix64NegOverflowTests == <<
    << D(<<5>>, <<>>), D(<<7>>, <<>>) >>,
    << D(<<0>>, <<>>), D(<<1>>, <<>>) >>,
    << D(<<0>>, <<>>), D(<<0>>, <<1000>>) >>,
    << D(<<0>>, <<>>), D(<<0>>, <<0100>>) >>,
    << D(<<0>>, <<>>), D(<<0>>, <<0010>>) >>,
    << D(<<0>>, <<>>), D(<<0>>, <<0001>>) >>,
    << D(<<0>>, <<>>), D(<<0>>, <<0000, 1000>>) >>,
    << D(<<0>>, <<>>), D(<<0>>, <<0000, 0100>>) >>,
    << D(<<0>>, <<>>), D(<<0>>, <<0000, 0010>>) >>,
    << D(<<0>>, <<>>), D(<<0>>, <<0000, 0001>>) >>,
    << D(<<100>>, <<>>), D(<<100>>, <<1000>>) >>,
    << D(<<100>>, <<>>), D(<<100>>, <<0100>>) >>,
    << D(<<100>>, <<>>), D(<<100>>, <<0010>>) >>,
    << D(<<100>>, <<>>), D(<<100>>, <<0001>>) >>,
    << D(<<100>>, <<>>), D(<<100>>, <<0000, 1000>>) >>,
    << D(<<100>>, <<>>), D(<<100>>, <<0000, 0100>>) >>,
    << D(<<100>>, <<>>), D(<<100>>, <<0000, 0010>>) >>,
    << D(<<100>>, <<>>), D(<<100>>, <<0000, 0001>>) >>,
    << SM("MaxUFix64", D(<<1>>, <<>>)), S("MaxUFix64") >>,
    << SM("MaxUFix64", D(<<0>>, <<1000>>)), S("MaxUFix64") >>,
    << SM("MaxUFix64", D(<<0>>, <<0100>>)), S("MaxUFix64") >>,
    << SM("MaxUFix64", D(<<0>>, <<0010>>)), S("MaxUFix64") >>,
    << SM("MaxUFix64", D(<<0>>, <<0001>>)), S("MaxUFix64") >>,
    << SM("MaxUFix64", D(<<0>>, <<0000, 1000>>)), S("MaxUFix64") >>,
    << SM("MaxUFix64", D(<<0>>, <<0000, 0100>>)), S("MaxUFix64") >>,
    << SM("MaxUFix64", D(<<0>>, <<0000, 0010>>)), S("MaxUFix64") >>,
    << SM("MaxUFix64", D(<<0>>, <<0000, 0001>>)), S("MaxUFix64") >>,
    << D(<<0>>, <<>>), S("MaxUFix64") >>,
    << D(<<1>>, <<>>), S("MaxUFix64") >>,
    << S("HalfMaxUFix64"), SP("HalfMaxUFix64", D(<<1>>, <<>>)) >>,
    << S("HalfMaxUFix64"), SP("HalfMaxUFix64", D(<<0>>, <<1000>>)) >>,
    << S("HalfMaxUFix64"), SP("HalfMaxUFix64", D(<<0>>, <<0100>>)) >>,
    << S("HalfMaxUFix64"), SP("HalfMaxUFix64", D(<<0>>, <<0010>>)) >>,
    << S("HalfMaxUFix64"), SP("HalfMaxUFix64", D(<<0>>, <<0001>>)) >>,
    << S("HalfMaxUFix64"), SP("HalfMaxUFix64", D(<<0>>, <<0000, 1000>>)) >>,
    << S("HalfMaxUFix64"), SP("HalfMaxUFix64", D(<<0>>, <<0000, 0100>>)) >>,
    << SP("HalfMaxUFix64", D(<<0>>, <<0000, 0001>>)), SP("HalfMaxUFix64", D(<<0>>, <<0000, 0002>>)) >>,
    << S("HalfMaxUFix64"), SP("HalfMaxUFix64", D(<<0>>, <<0000, 0002>>)) >>
>>

\* testgen/sub64.py lines 121-207
SubFix64Tests == <<
    << D(<<1>>, <<>>), D(<<1>>, <<>>) >>,
    << D(<<1>>, <<>>), D(<<0>>, <<>>) >>,
    << D(<<0>>, <<>>), D(<<0>>, <<>>) >>,
    << D(<<0>>, <<>>), D(<<1>>, <<>>) >>,
    << D(<<1>>, <<>>), D(<<2>>, <<>>) >>,
    << N(<<1>>, <<>>), D(<<2>>, <<>>) >>,
    << D(<<1>>, <<>>), N(<<2>>, <<>>) >>,
    << N(<<1>>, <<>>), N(<<2>>, <<>>) >>,
    << D(<<1>>, <<>>), D(<<1, 0000, 0000>>, <<>>) >>,
    << D(<<1>>, <<>>), D(<<1, 0000, 0001>>, <<>>) >>,
    << D(<<1>>, <<>>), D(<<9999, 9999>>, <<>>) >>,
    << D(<<123>>, <<4560>>), D(<<789>>, <<0120>>) >>,
    << N(<<456>>, <<7890>>), D(<<123>>, <<4560>>) >>,
    << D(<<0>>, <<0001, 2300>>), D(<<0>>, <<0004, 5600>>) >>,
    << N(<<0>>, <<0007, 8900>>), D(<<0>>, <<0003, 2100>>) >>,
    << D(<<9, 8765>>, <<4321>>), N(<<1, 2345>>, <<6789>>) >>,
    << D(<<3, 1415>>, <<9265>>), D(<<2, 7182>>, <<8182>>) >>,
    << N(<<2, 7182>>, <<8182>>), N(<<3, 1415>>, <<9265>>) >>,
    << D(<<1>>, <<2345, 6789>>), N(<<0>>, <<9876, 5432>>) >>,
    << D(<<0>>, <<9999, 9999>>), D(<<0>>, <<0000, 0001>>) >>,
    << N(<<0>>, <<9999, 9999>>), N(<<0>>, <<0000, 0001>>) >>,
    << SM("MaxFix64", D(<<1>>, <<>>)), N(<<1>>, <<>>) >>,
    << SM("MaxFix64", D(<<0>>, <<1000>>)), N(<<0>>, <<1000>>) >>,
    << SM("MaxFix64", D(<<0>>, <<0100>>)), N(<<0>>, <<0100>>) >>,
    << SM("MaxFix64", D(<<0>>, <<0010>>)), N(<<0>>, <<0010>>) >>,
    << SM("MaxFix64", D(<<0>>, <<0001>>)), N(<<0>>, <<0001>>) >>,
    << SM("MaxFix64", D(<<0>>, <<0000, 1000>>)), N(<<0>>, <<0000, 1000>>) >>,
    << SM("MaxFix64", D(<<0>>, <<0000, 0100>>)), N(<<0>>, <<0000, 0100>>) >>,
    << SM("MaxFix64", D(<<0>>, <<0000, 0010>>)), N(<<0>>, <<0000, 0010>>) >>,
    << SM("MaxFix64", D(<<0>>, <<0000, 0001>>)), N(<<0>>, <<0000, 0001>>) >>,
    << S("HalfMaxFix64"), S("HalfMinFix64") >>,
    << S("HalfMaxFix64"), SP("HalfMinFix64", D(<<0>>, <<0000, 0001>>)) >>,
    << S("MaxFix64"), D(<<1>>, <<>>) >>,
    << S("MaxFix64"), D(<<0>>, <<>>) >>,
    << S("MaxFix64"), D(<<0>>, <<1000>>) >>,
    << S("MaxFix64"), D(<<0>>, <<0100>>) >>,
    << S("MaxFix64"), D(<<0>>, <<0010>>) >>,
    << S("MaxFix64"), D(<<0>>, <<0001>>) >>,
    << S("MaxFix64"), D(<<0>>, <<0000, 1000>>) >>,
    << S("MaxFix64"), D(<<0>>, <<0000, 0100>>) >>,
    << S("MaxFix64"), D(<<0>>, <<0000, 0010>>) >>,
    << S("MaxFix64"), D(<<0>>, <<0000, 0001>>) >>,
    << SP("MinFix64", D(<<1>>, <<>>)), D(<<1>>, <<>>) >>,
    << SP("MinFix64", D(<<0>>, <<1000>>)), D(<<0>>, <<1000>>) >>,
    << SP("MinFix64", D(<<0>>, <<0100>>)), D(<<0>>, <<0100>>) >>,
    << SP("MinFix64", D(<<0>>, <<0010>>)), D(<<0>>, <<0010>>) >>,
    << SP("MinFix64", D(<<0>>, <<0001>>)), D(<<0>>, <<0001>>) >>,
    << SP("MinFix64", D(<<0>>, <<0000, 1000>>)), D(<<0>>, <<0000, 1000>>) >>,
    << SP("MinFix64", D(<<0>>, <<0000, 0100>>)), D(<<0>>, <<0000, 0100>>) >>,
    << SP("MinFix64", D(<<0>>, <<0000, 0010>>)), D(<<0>>, <<0000, 0010>>) >>,
    << SP("MinFix64", D(<<0>>, <<0000, 0001>>)), D(<<0>>, <<0000, 0001>>) >>,
    << D(<<0>>, <<>>), S("MaxFix64") >>,
    << N(<<0>>, <<1000>>), SM("MaxFix64", D(<<0>>, <<1000>>)) >>,
    << N(<<0>>, <<0100>>), SM("MaxFix64", D(<<0>>, <<0100>>)) >>,
    << N(<<0>>, <<0010>>), SM("MaxFix64", D(<<0>>, <<0010>>)) >>,
    << N(<<0>>, <<0001>>), SM("MaxFix64", D(<<0>>, <<0001>>)) >>,
    << N(<<0>>, <<0000, 1000>>), SM("MaxFix64", D(<<0>>, <<0000, 1000>>)) >>,
    << N(<<0>>, <<0000, 0100>>), SM("MaxFix64", D(<<0>>, <<0000, 0100>>)) >>,
    << N(<<0>>, <<0000, 0010>>), SM("MaxFix64", D(<<0>>, <<0000, 0010>>)) >>,
    << N(<<0>>, <<0000, 0001>>), SM("MaxFix64", D(<<0>>, <<0000, 0001>>)) >>,
    << N(<<1>>, <<>>), SM("MaxFix64", D(<<1>>, <<>>)) >>,
    << N(<<0>>, <<1000>>), SM("MaxFix64", D(<<0>>, <<1000>>)) >>,
    << N(<<0>>, <<0100>>), SM("MaxFix64", D(<<0>>, <<0100>>)) >>,
    << N(<<0>>, <<0010>>), SM("MaxFix64", D(<<0>>, <<0010>>)) >>,
    << N(<<0>>, <<0001>>), SM("MaxFix64", D(<<0>>, <<0001>>)) >>,
    << N(<<0>>, <<0000, 1000>>), SM("MaxFix64", D(<<0>>, <<0000, 1000>>)) >>,
    << N(<<0>>, <<0000, 0100>>), SM("MaxFix64", D(<<0>>, <<0000, 0100>>)) >>,
    << N(<<0>>, <<0000, 0010>>), SM("MaxFix64", D(<<0>>, <<0000, 0010>>)) >>,
    << N(<<0>>, <<0000, 0001>>), SM("MaxFix64", D(<<0>>, <<0000, 0001>>)) >>,
    << SM("HalfMinFix64", D(<<0>>, <<0000, 0001>>)), S("HalfMaxFix64") >>,
    << S("HalfMinFix64"), SP("HalfMaxFix64", D(<<0>>, <<0000, 0001>>)) >>,
    << S("HalfMinFix64"), S("HalfMaxFix64") >>,
    << SP("HalfMaxFix64", D(<<0>>, <<0000, 0001>>)), SP("HalfMinFix64", D(<<0>>, <<0000, 0001>>)) >>,
    << SP("HalfMinFix64", D(<<0>>, <<0000, 0001>>)), SM("HalfMaxFix64", D(<<0>>, <<0000, 0001>>)) >>
>>

\* testgen/sub64.py lines 209-229
SubFix64OverflowTests == <<
    << S("MaxFix64"), N(<<1>>, <<>>) >>,
    << S("MaxFix64"), N(<<0>>, <<1000>>) >>,
    << S("MaxFix64"), N(<<0>>, <<0100>>) >>,
    << S("MaxFix64"), N(<<0>>, <<0010>>) >>,
    << S("MaxFix64"), N(<<0>>, <<0001>>) >>,
    << S("MaxFix64"), N(<<0>>, <<0000, 1000>>) >>,
    << S("MaxFix64"), N(<<0>>, <<0000, 0100>>) >>,
    << S("MaxFix64"), N(<<0>>, <<0000, 0010>>) >>,
    << S("MaxFix64"), N(<<0>>, <<0000, 0001>>) >>,
    << S("MaxFix64"), S("MinFix64") >>,
    << SP("HalfMaxFix64", D(<<1>>, <<>>)), S("HalfMinFix64") >>,
    << SP("HalfMaxFix64", D(<<0>>, <<1000>>)), S("HalfMinFix64") >>,
    << SP("HalfMaxFix64", D(<<0>>, <<0100>>)), S("HalfMinFix64") >>,
    << SP("HalfMaxFix64", D(<<0>>, <<0010>>)), S("HalfMinFix64") >>,
    << SP("HalfMaxFix64", D(<<0>>, <<0001>>)), S("HalfMinFix64") >>,
    << SP("HalfMaxFix64", D(<<0>>, <<0000, 1000>>)), S("HalfMinFix64") >>,
    << SP("HalfMaxFix64", D(<<0>>, <<0000, 0100>>)), S("HalfMinFix64") >>,
    << SP("HalfMaxFix64", D(<<0>>, <<0000, 0010>>)), S("HalfMinFix64") >>
>>

\* testgen/sub64.py lines 231-252
SubFix64NegOverflowTests == <<
    << N(<<2>>, <<>>), S("MaxFix64") >>,
    << N(<<1>>, <<1000>>), S("MaxFix64") >>,
    << N(<<1>>, <<0100>>), S("MaxFix64") >>,
    << N(<<1>>, <<0010>>), S("MaxFix64") >>,
    << N(<<1>>, <<0001>>), S("MaxFix64") >>,
    << N(<<1>>, <<0000, 1000>>), S("MaxFix64") >>,
    << N(<<1>>, <<0000, 0100>>), S("MaxFix64") >>,
    << N(<<1>>, <<0000, 0010>>), S("MaxFix64") >>,
    << N(<<1>>, <<0000, 0001>>), S("MaxFix64") >>,
    << S("MinFix64"), D(<<1>>, <<>>) >>,
    << S("MinFix64"), D(<<0>>, <<1000>>) >>,
    << S("MinFix64"), D(<<0>>, <<0100>>) >>,
    << S("MinFix64"), D(<<0>>, <<0010>>) >>,
    << S("MinFix64"), D(<<0>>, <<0001>>) >>,
    << S("MinFix64"), D(<<0>>, <<0000, 1000>>) >>,
    << S("MinFix64"), D(<<0>>, <<0000, 0100>>) >>,
    << S("MinFix64"), D(<<0>>, <<0000, 0010>>) >>,
    << S("MinFix64"), D(<<0>>, <<0000, 0001>>) >>,
    << S("MinFix64"), S("MaxFix64") >>,
    << SM("HalfMinFix64", D(<<0>>, <<0000, 0001>>)), SP("HalfMaxFix64", D(<<0>>, <<0000, 0001>>)) >>
>>

\* testgen/mul64.py lines 8-44
MulUFix64Tests == <<
    << D(<<1>>, <<>>), D(<<1>>, <<>>) >>,
    << D(<<1>>, <<>>), D(<<0>>, <<>>) >>,
    << D(<<0>>, <<>>), D(<<0>>, <<>>) >>,
    << D(<<1>>, <<>>), D(<<1, 0000, 0000>>, <<>>) >>,
    << D(<<1>>, <<>>), D(<<1, 0000, 0001>>, <<>>) >>,
    << D(<<3>>, <<>>), D(<<670, 0417>>, <<>>) >>,
    << D(<<3>>, <<>>), D(<<5>>, <<>>) >>,
    << D(<<3>>, <<>>), D(<<17>>, <<>>) >>,
    << D(<<3>>, <<>>), D(<<257>>, <<>>) >>,
    << D(<<3>>, <<>>), D(<<641>>, <<>>) >>,
    << D(<<3>>, <<>>), D(<<6, 5537>>, <<>>) >>,
    << D(<<42, 9496>>, <<7295>>), D(<<42, 9496>>, <<7295>>) >>,
    << D(<<42, 9496>>, <<7295, 9999>>), D(<<42, 9496>>, <<7295, 9999>>) >>,
    << S("MaxUFix64"), D(<<1>>, <<>>) >>,
    << S("MaxUFix64"), D(<<0>>, <<1000>>) >>,
    << S("MaxUFix64"), D(<<0>>, <<0100>>) >>,
    << S("MaxUFix64"), D(<<0>>, <<0010>>) >>,
    << S("MaxUFix64"), D(<<0>>, <<0001>>) >>,
    << S("MaxUFix64"), D(<<0>>, <<0000, 1000>>) >>,
    << S("MaxUFix64"), D(<<0>>, <<0000, 0100>>) >>,
    << S("MaxUFix64"), D(<<0>>, <<0000, 0010>>) >>,
    << S("MaxUFix64"), D(<<0>>, <<0000, 0001>>) >>,
    << S("MaxUFix64"), D(<<0>>, <<>>) >>,
    << SM("MaxUFix64", D(<<1>>, <<>>)), D(<<1>>, <<>>) >>,
    << S("HalfMaxUFix64"), D(<<2>>, <<>>) >>,
    << D(<<0>>, <<1000>>), D(<<0>>, <<0000, 0010>>) >>,
    << D(<<0>>, <<0100>>), D(<<0>>, <<0000, 0100>>) >>,
    << D(<<0>>, <<0010>>), D(<<0>>, <<0000, 1000>>) >>,
    << D(<<0>>, <<0001>>), D(<<0>>, <<0001>>) >>,
    << D(<<0>>, <<0000, 1000>>), D(<<0>>, <<0010>>) >>,
    << D(<<0>>, <<0000, 0100>>), D(<<0>>, <<0100>>) >>,
    << D(<<0>>, <<0000, 0010>>), D(<<0>>, <<1000>>) >>,
    << D(<<0>>, <<0000, 0005>>), D(<<0>>, <<2000>>) >>,
    << D(<<0>>, <<0000, 0002>>), D(<<0>>, <<5000>>) >>
>>

\* testgen/mul64.py lines 46-63
MulUFix64OverflowTests == <<
    << S("MaxUFix64"), D(<<1>>, <<1000>>) >>,
    << S("MaxUFix64"), D(<<1>>, <<0100>>) >>,
    << S("MaxUFix64"), D(<<1>>, <<0010>>) >>,
    << S("MaxUFix64"), D(<<1>>, <<0000, 1000>>) >>,
    << S("MaxUFix64"), D(<<1>>, <<0000, 0010>>) >>,
    << S("MaxUFix64"), S("MaxUFix64") >>,
    << S("HalfMaxUFix64"), SP("HalfMaxUFix64", D(<<1>>, <<>>)) >>,
    << S("HalfMaxUFix64"), SP("HalfMaxUFix64", D(<<0>>, <<1000>>)) >>,
    << S("HalfMaxUFix64"), SP("HalfMaxUFix64", D(<<0>>, <<0100>>)) >>,
    << S("HalfMaxUFix64"), SP("HalfMaxUFix64", D(<<0>>, <<0010>>)) >>,
    << S("HalfMaxUFix64"), SP("HalfMaxUFix64", D(<<0>>, <<0001>>)) >>,
    << S("HalfMaxUFix64"), SP("HalfMaxUFix64", D(<<0>>, <<0000, 1000>>)) >>,
    << S("HalfMaxUFix64"), SP("HalfMaxUFix64", D(<<0>>, <<0000, 0100>>)) >>,
    << SP("HalfMaxUFix64", D(<<0>>, <<0000, 0001>>)), SP("HalfMaxUFix64", D(<<0>>, <<0000, 0001>>)) >>,
    << SP("HalfMaxUFix64", D(<<0>>, <<0000, 0002>>)), S("HalfMaxUFix64") >>,
    << S("HalfMaxUFix64"), SP("HalfMaxUFix64", D(<<0>>, <<0000, 0002>>)) >>
>>

\* testgen/mul64.py lines 65-85
MulUFix64UnderflowTests == <<
    << D(<<0>>, <<0000, 0001>>), D(<<0>>, <<0000, 0010>>) >>,
    << D(<<0>>, <<0000, 0010>>), D(<<0>>, <<0000, 0001>>) >>,
    << D(<<0>>, <<0000, 0100>>), D(<<0>>, <<0000, 0100>>) >>,
    << D(<<0>>, <<0100>>), D(<<0>>, <<0000, 0010>>) >>,
    << D(<<0>>, <<0010>>), D(<<0>>, <<0000, 0100>>) >>,
    << D(<<0>>, <<0001>>), D(<<0>>, <<0000, 1000>>) >>,
    << D(<<0>>, <<0000, 1000>>), D(<<0>>, <<0001>>) >>,
    << D(<<0>>, <<0000, 0100>>), D(<<0>>, <<0010>>) >>,
    << D(<<0>>, <<0000, 0010>>), D(<<0>>, <<0100>>) >>,
    << D(<<0>>, <<9999, 9999>>), D(<<0>>, <<0000, 0001>>) >>,
    << D(<<0>>, <<0999, 9999>>), D(<<0>>, <<0000, 0010>>) >>,
    << D(<<0>>, <<0099, 9999>>), D(<<0>>, <<0000, 0100>>) >>,
    << D(<<0>>, <<0009, 9999>>), D(<<0>>, <<0000, 1000>>) >>,
    << D(<<0>>, <<0000, 9999>>), D(<<0>>, <<0001>>) >>,
    << D(<<0>>, <<0000, 0999>>), D(<<0>>, <<0010>>) >>,
    << D(<<0>>, <<0000, 0099>>), D(<<0>>, <<0100>>) >>,
    << D(<<0>>, <<0000, 0009>>), D(<<0>>, <<1000>>) >>,
    << D(<<0>>, <<0000, 0005>>), D(<<0>>, <<1999, 9999>>) >>,
    << D(<<0>>, <<0000, 0002>>), D(<<0>>, <<4999, 9999>>) >>
>>

\* testgen/mul64.py lines 87-163
MulFix64Tests == <<
    << D(<<1>>, <<>>), D(<<1>>, <<>>) >>,
    << D(<<1>>, <<>>), D(<<0>>, <<>>) >>,
    << D(<<0>>, <<>>), D(<<0>>, <<>>) >>,
    << D(<<1>>, <<>>), D(<<2>>, <<>>) >>,
    << D(<<2>>, <<>>), D(<<2>>, <<>>) >>,
    << D(<<1>>, <<>>), N(<<2>>, <<>>) >>,
    << N(<<2>>, <<>>), D(<<2>>, <<>>) >>,
    << N(<<2>>, <<>>), N(<<2>>, <<>>) >>,
    << D(<<1>>, <<>>), D(<<1, 0000, 0000>>, <<>>) >>,
    << D(<<1>>, <<>>), D(<<1, 0000, 0001>>, <<>>) >>,
    << D(<<1>>, <<>>), D(<<9999, 9999>>, <<>>) >>,
    << D(<<123>>, <<4560>>), D(<<789>>, <<0120>>) >>,
    << N(<<456>>, <<7890>>), D(<<123>>, <<4560>>) >>,
    << D(<<0>>, <<0001, 2300>>), D(<<0>>, <<0004, 5600>>) >>,
    << N(<<0>>, <<0007, 8900>>), D(<<0>>, <<0003, 2100>>) >>,
    << D(<<9, 8765>>, <<4321>>), N(<<1, 2345>>, <<6789>>) >>,
    << D(<<3, 1415>>, <<9265>>), D(<<2, 7182>>, <<8182>>) >>,
    << N(<<2, 7182>>, <<8182>>), N(<<3, 1415>>, <<9265>>) >>,
    << D(<<1>>, <<2345, 6789>>), N(<<0>>, <<9876, 5432>>) >>,
    << D(<<0>>, <<9999, 9999>>), D(<<0>>, <<0000, 0001>>) >>,
    << N(<<0>>, <<9999, 9999>>), N(<<0>>, <<0000, 0001>>) >>,
    << S("MaxFix64"), D(<<1>>, <<>>) >>,
    << S("MaxFix64"), D(<<0>>, <<1000>>) >>,
    << S("MaxFix64"), D(<<0>>, <<0100>>) >>,
    << S("MaxFix64"), D(<<0>>, <<0010>>) >>,
    << S("MaxFix64"), D(<<0>>, <<0001>>) >>,
    << S("MaxFix64"), D(<<0>>, <<0000, 1000>>) >>,
    << S("MaxFix64"), D(<<0>>, <<0000, 0100>>) >>,
    << S("MaxFix64"), D(<<0>>, <<0000, 0010>>) >>,
    << S("MaxFix64"), D(<<0>>, <<0000, 0001>>) >>,
    << S("HalfMaxFix64"), S("HalfMaxFix64") >>,
    << SP("HalfMaxFix64", D(<<0>>, <<0000, 0001>>)), S("HalfMaxFix64") >>,
    << S("HalfMaxFix64"), SP("HalfMaxFix64", D(<<0>>, <<0000, 0001>>)) >>,
    << S("MaxFix64"), N(<<1>>, <<>>) >>,
    << S("MaxFix64"), D(<<0>>, <<>>) >>,
    << S("MaxFix64"), N(<<0>>, <<1000>>) >>,
    << S("MaxFix64"), N(<<0>>, <<0100>>) >>,
    << S("MaxFix64"), N(<<0>>, <<0010>>) >>,
    << S("MaxFix64"), N(<<0>>, <<0001>>) >>,
    << S("MaxFix64"), N(<<0>>, <<0000, 1000>>) >>,
    << S("MaxFix64"), N(<<0>>, <<0000, 0100>>) >>,
    << S("MaxFix64"), N(<<0>>, <<0000, 0010>>) >>,
    << S("MaxFix64"), N(<<0>>, <<0000, 0001>>) >>,
    << S("HalfMaxFix64"), S("HalfMaxFix64") >>,
    << SP("MinFix64", D(<<1>>, <<>>)), N(<<1>>, <<>>) >>,
    << SP("MinFix64", D(<<0>>, <<1000>>)), N(<<0>>, <<1000>>) >>,
    << SP("MinFix64", D(<<0>>, <<0100>>)), N(<<0>>, <<0100>>) >>,
    << SP("MinFix64", D(<<0>>, <<0010>>)), N(<<0>>, <<0010>>) >>,
    << SP("MinFix64", D(<<0>>, <<0001>>)), N(<<0>>, <<0001>>) >>,
    << SP("MinFix64", D(<<0>>, <<0000, 1000>>)), N(<<0>>, <<0000, 1000>>) >>,
    << SP("MinFix64", D(<<0>>, <<0000, 0100>>)), N(<<0>>, <<0000, 0100>>) >>,
    << SP("MinFix64", D(<<0>>, <<0000, 0010>>)), N(<<0>>, <<0000, 0010>>) >>,
    << SP("MinFix64", D(<<0>>, <<0000, 0001>>)), N(<<0>>, <<0000, 0001>>) >>,
    << S("MinFix64"), D(<<1>>, <<>>) >>,
    << S("MinFix64"), D(<<0>>, <<1000>>) >>,
    << S("MinFix64"), D(<<0>>, <<0100>>) >>,
    << S("MinFix64"), D(<<0>>, <<0010>>) >>,
    << S("MinFix64"), D(<<0>>, <<0001>>) >>,
    << S("MinFix64"), D(<<0>>, <<0000, 1000>>) >>,
    << S("MinFix64"), D(<<0>>, <<0000, 0100>>) >>,
    << S("MinFix64"), D(<<0>>, <<0000, 0010>>) >>,
    << S("MinFix64"), D(<<0>>, <<0000, 0001>>) >>,
    << D(<<0>>, <<>>), S("MinFix64") >>,
    << N(<<0>>, <<1000>>), SP("MinFix64", D(<<0>>, <<1000>>)) >>,
    << N(<<0>>, <<0100>>), SP("MinFix64", D(<<0>>, <<0100>>)) >>,
    << N(<<0>>, <<0010>>), SP("MinFix64", D(<<0>>, <<0010>>)) >>,
    << N(<<0>>, <<0001>>), SP("MinFix64", D(<<0>>, <<0001>>)) >>,
    << N(<<0>>, <<0000, 1000>>), SP("MinFix64", D(<<0>>, <<0000, 1000>>)) >>,
    << N(<<0>>, <<0000, 0100>>), SP("MinFix64", D(<<0>>, <<0000, 0100>>)) >>,
    << N(<<0>>, <<0000, 0010>>), SP("MinFix64", D(<<0>>, <<0000, 0010>>)) >>,
    << N(<<0>>, <<0000, 0001>>), SP("MinFix64", D(<<0>>, <<0000, 0001>>)) >>,
    << S("HalfMinFix64"), S("HalfMinFix64") >>,
    << SP("HalfMinFix64", D(<<0>>, <<0000, 0001>>)), SM("HalfMinFix64", D(<<0>>, <<0000, 0001>>)) >>
>>

\* testgen/mul64.py lines 165-180
MulFix64OverflowTests == <<
    << S("MaxFix64"), D(<<1>>, <<1000>>) >>,
    << S("MaxFix64"), D(<<1>>, <<0100>>) >>,
    << S("MaxFix64"), D(<<1>>, <<0010>>) >>,
    << S("MaxFix64"), D(<<1>>, <<0000, 1000>>) >>,
    << S("MaxFix64"), D(<<1>>, <<0000, 0010>>) >>,
    << S("MaxFix64"), S("MaxFix64") >>,
    << S("HalfMaxFix64"), SP("HalfMaxFix64", D(<<1>>, <<>>)) >>,
    << S("HalfMaxFix64"), SP("HalfMaxFix64", D(<<0>>, <<1000>>)) >>,
    << S("HalfMaxFix64"), SP("HalfMaxFix64", D(<<0>>, <<0100>>)) >>,
    << S("HalfMaxFix64"), SP("HalfMaxFix64", D(<<0>>, <<0010>>)) >>,
    << S("HalfMaxFix64"), SP("HalfMaxFix64", D(<<0>>, <<0001>>)) >>,
    << S("HalfMaxFix64"), SP("HalfMaxFix64", D(<<0>>, <<0000, 1000>>)) >>,
    << S("HalfMaxFix64"), SP("HalfMaxFix64", D(<<0>>, <<0000, 0100>>)) >>,
    << SP("HalfMaxFix64", D(<<0>>, <<0000, 0001>>)), SP("HalfMaxFix64", D(<<0>>, <<0000, 0001>>)) >>
>>

\* testgen/mul64.py lines 182-201
MulFix64NegOverflowTests == <<
    << S("MinFix64"), D(<<1>>, <<1000>>) >>,
    << S("MinFix64"), D(<<0>>, <<1000>>) >>,
    << S("MinFix64"), D(<<0>>, <<0100>>) >>,
    << S("MinFix64"), D(<<0>>, <<0010>>) >>,
    << S("MinFix64"), D(<<0>>, <<0001>>) >>,
    << S("MinFix64"), D(<<0>>, <<0000, 1000>>) >>,
    << S("MinFix64"), D(<<0>>, <<0000, 0100>>) >>,
    << S("MinFix64"), D(<<0>>, <<0000, 0010>>) >>,
    << S("MinFix64"), D(<<0>>, <<0000, 0001>>) >>,
    << S("MinFix64"), S("MaxFix64") >>,
    << S("HalfMinFix64"), SP("HalfMinFix64", D(<<1>>, <<>>)) >>,
    << S("HalfMinFix64"), SP("HalfMinFix64", D(<<0>>, <<1000>>)) >>,
    << S("HalfMinFix64"), SP("HalfMinFix64", D(<<0>>, <<0100>>)) >>,
    << S("HalfMinFix64"), SP("HalfMinFix64", D(<<0>>, <<0010>>)) >>,
    << S("HalfMinFix64"), SP("HalfMinFix64", D(<<0>>, <<0001>>)) >>,
    << S("HalfMinFix64"), SP("HalfMinFix64", D(<<0>>, <<0000, 1000>>)) >>,
    << S("HalfMinFix64"), SP("HalfMinFix64", D(<<0>>, <<0000, 0100>>)) >>,
    << S("HalfMinFix64"), SP("HalfMinFix64", D(<<0>>, <<0000, 0010>>)) >>
>>

\* testgen/div64.py lines 9-118
DivUFix64Tests == <<
    << D(<<1>>, <<>>), D(<<1>>, <<>>) >>,
    << D(<<1>>, <<>>), D(<<1, 0000, 0000>>, <<>>) >>,
    << D(<<10>>, <<>>), D(<<1, 0000, 0001>>, <<>>) >>,
    << D(<<1, 0000, 0000>>, <<>>), D(<<1, 0000, 0000>>, <<>>) >>,
    << D(<<1, 0000, 0000>>, <<>>), D(<<9999, 9999>>, <<>>) >>,
    << D(<<1, 0000, 0000>>, <<>>), D(<<1, 0000, 0001>>, <<>>) >>,
    << D(<<5>>, <<>>), D(<<1>>, <<>>) >>,
    << D(<<5>>, <<>>), D(<<2>>, <<>>) >>,
    << D(<<5>>, <<>>), D(<<3>>, <<>>) >>,
    << D(<<5>>, <<>>), D(<<4>>, <<>>) >>,
    << D(<<5>>, <<>>), D(<<5>>, <<>>) >>,
    << D(<<5>>, <<>>), D(<<6>>, <<>>) >>,
    << D(<<5>>, <<>>), D(<<7>>, <<>>) >>,
    << D(<<5>>, <<>>), D(<<8>>, <<>>) >>,
    << D(<<5>>, <<>>), D(<<9>>, <<>>) >>,
    << D(<<5>>, <<>>), D(<<10>>, <<>>) >>,
    << D(<<123>>, <<4560>>), D(<<789>>, <<0120>>) >>,
    << D(<<456>>, <<7890>>), D(<<123>>, <<4560>>) >>,
    << D(<<0>>, <<0001, 2300>>), D(<<0>>, <<0004, 5600>>) >>,
    << D(<<0>>, <<0007, 8900>>), D(<<0>>, <<0003, 2100>>) >>,
    << D(<<9, 8765>>, <<4321>>), D(<<1, 2345>>, <<6789>>) >>,
    << D(<<3, 1415>>, <<9265>>), D(<<2, 7182>>, <<8182>>) >>,
    << D(<<1>>, <<2345, 6789>>), D(<<0>>, <<9876, 5432>>) >>,
    << D(<<0>>, <<9999, 9999>>), D(<<0>>, <<0000, 0001>>) >>,
    << S("MaxUFix64"), X(D(<<2, 7530, 7403, 6095>>, <<>>)) >>,
    << S("MaxUFix64"), D(<<4200, 7935>>, <<>>) >>,
    << S("MaxUFix64"), D(<<6, 5535>>, <<>>) >>,
    << S("MaxUFix64"), D(<<255>>, <<>>) >>,
    << S("MaxUFix64"), D(<<4369>>, <<>>) >>,
    << S("MaxUFix64"), D(<<3>>, <<>>) >>,
    << S("MaxUFix64"), D(<<5>>, <<>>) >>,
    << S("MaxUFix64"), D(<<17>>, <<>>) >>,
    << S("MaxUFix64"), D(<<257>>, <<>>) >>,
    << S("MaxUFix64"), D(<<641>>, <<>>) >>,
    << S("MaxUFix64"), D(<<6, 5537>>, <<>>) >>,
    << S("MaxUFix64"), D(<<670, 0417>>, <<>>) >>,
    << S("MaxUFix64"), D(<<49, 4211>>, <<>>) >>,
    << S("MaxUFix64"), D(<<42, 9496>>, <<7296>>) >>,
    << S("MaxUFix64"), D(<<42, 9496>>, <<7295>>) >>,
    << S("MaxUFix64"), D(<<42, 9496>>, <<7295, 9999>>) >>,
    << S("MaxUFix64"), D(<<1>>, <<>>) >>,
    << S("MaxUFix64"), D(<<10>>, <<>>) >>,
    << S("MaxUFix64"), D(<<100>>, <<>>) >>,
    << S("MaxUFix64"), D(<<1000>>, <<>>) >>,
    << S("MaxUFix64"), D(<<1, 0000>>, <<>>) >>,
    << S("MaxUFix64"), D(<<10, 0000>>, <<>>) >>,
    << S("MaxUFix64"), D(<<100, 0000>>, <<>>) >>,
    << S("MaxUFix64"), D(<<1000, 0000>>, <<>>) >>,
    << S("MaxUFix64"), D(<<1, 0000, 0000>>, <<>>) >>,
    << S("MaxUFix64"), D(<<10, 0000, 0000>>, <<>>) >>,
    << S("MaxUFix64"), D(<<100, 0000, 0000>>, <<>>) >>,
    << S("MaxUFix64"), D(<<1000, 0000, 0000>>, <<>>) >>,
    << SM("MaxUFix64", D(<<1>>, <<>>)), D(<<1>>, <<>>) >>,
    << S("HalfMaxUFix64"), D(<<0>>, <<5000>>) >>,
    << S("MaxUFix64"), D(<<1>>, <<>>) >>,
    << S("MaxUFix64"), D(<<2>>, <<>>) >>,
    << S("MaxUFix64"), S("MaxUFix64") >>,
    << S("HalfMaxUFix64"), D(<<2>>, <<>>) >>,
    << S("HalfMaxUFix64"), S("HalfMaxUFix64") >>,
    << SP("HalfMaxUFix64", D(<<0>>, <<0000, 0001>>)), S("HalfMaxUFix64") >>,
    << S("HalfMaxUFix64"), SP("HalfMaxUFix64", D(<<0>>, <<0000, 0001>>)) >>,
    << D(<<0>>, <<0000, 0001>>), D(<<1>>, <<>>) >>,
    << D(<<0>>, <<0000, 0010>>), D(<<10>>, <<>>) >>,
    << D(<<0>>, <<0000, 0100>>), D(<<100>>, <<>>) >>,
    << D(<<0>>, <<0000, 1000>>), D(<<1000>>, <<>>) >>,
    << D(<<0>>, <<0001>>), D(<<1, 0000>>, <<>>) >>,
    << D(<<0>>, <<0010>>), D(<<10, 0000>>, <<>>) >>,
    << D(<<0>>, <<0100>>), D(<<100, 0000>>, <<>>) >>,
    << D(<<0>>, <<1000>>), D(<<1000, 0000>>, <<>>) >>,
    << D(<<1>>, <<>>), D(<<1, 0000, 0000>>, <<>>) >>,
    << D(<<0>>, <<0000, 0005>>), D(<<5>>, <<>>) >>,
    << D(<<0>>, <<0000, 0002>>), D(<<2>>, <<>>) >>,
    << D(<<0>>, <<0000, 0001>>), D(<<0>>, <<9999, 9999>>) >>,
    << D(<<0>>, <<0000, 0010>>), D(<<9>>, <<9999, 9999>>) >>,
    << D(<<0>>, <<0000, 0100>>), D(<<99>>, <<9999, 9999>>) >>,
    << D(<<0>>, <<0000, 1000>>), D(<<999>>, <<9999, 9999>>) >>,
    << D(<<0>>, <<0001>>), D(<<9999>>, <<9999, 9999>>) >>,
    << D(<<0>>, <<0010>>), D(<<9, 9999>>, <<9999, 9999>>) >>,
    << D(<<0>>, <<0100>>), D(<<99, 9999>>, <<9999, 9999>>) >>,
    << D(<<0>>, <<1000>>), D(<<999, 9999>>, <<9999, 9999>>) >>,
    << D(<<1>>, <<>>), D(<<9999, 9999>>, <<9999, 9999>>) >>,
    << D(<<1844, 6744, 0737>>, <<0955, 1615>>), D(<<1>>, <<>>) >>,
    << D(<<184, 4674, 4073>>, <<7095, 5161>>), D(<<0>>, <<1000>>) >>,
    << D(<<18, 4467, 4407>>, <<3709, 5516>>), D(<<0>>, <<0100>>) >>,
    << D(<<1, 8446, 7440>>, <<7370, 9551>>), D(<<0>>, <<0010>>) >>,
    << D(<<1844, 6744>>, <<0737, 0955>>), D(<<0>>, <<0001>>) >>,
    << D(<<184, 4674>>, <<4073, 7095>>), D(<<0>>, <<0000, 1000>>) >>,
    << D(<<18, 4467>>, <<4407, 3709>>), D(<<0>>, <<0000, 0100>>) >>,
    << D(<<1, 8446>>, <<7440, 7370>>), D(<<0>>, <<0000, 0010>>) >>,
    << D(<<1844>>, <<6744, 0737>>), D(<<0>>, <<0000, 0001>>) >>
>>

\* testgen/div64.py lines 120-145
DivUFix64OverflowTests == <<
    << S("MaxUFix64"), D(<<0>>, <<9999, 9999>>) >>,
    << S("MaxUFix64"), D(<<0>>, <<1000>>) >>,
    << S("MaxUFix64"), D(<<0>>, <<0100>>) >>,
    << S("MaxUFix64"), D(<<0>>, <<0010>>) >>,
    << S("MaxUFix64"), D(<<0>>, <<0000, 1000>>) >>,
    << S("MaxUFix64"), D(<<0>>, <<0000, 0010>>) >>,
    << D(<<1844, 6744, 0737>>, <<0955, 1615>>), D(<<0>>, <<9999, 9999>>) >>,
    << D(<<184, 4674, 4073>>, <<7095, 5161>>), D(<<0>>, <<0999, 9999>>) >>,
    << D(<<18, 4467, 4407>>, <<3709, 5516>>), D(<<0>>, <<0099, 9999>>) >>,
    << D(<<1, 8446, 7440>>, <<7370, 9551>>), D(<<0>>, <<0009, 9999>>) >>,
    << D(<<1844, 6744>>, <<0737, 0955>>), D(<<0>>, <<0000, 9999>>) >>,
    << D(<<184, 4674>>, <<4073, 7095>>), D(<<0>>, <<0000, 0999>>) >>,
    << D(<<18, 4467>>, <<4407, 3709>>), D(<<0>>, <<0000, 0099>>) >>,
    << D(<<1, 8446>>, <<7440, 7370>>), D(<<0>>, <<0000, 0009>>) >>,
    << S("HalfMaxUFix64"), D(<<0>>, <<0000, 0001>>) >>,
    << S("HalfMaxUFix64"), D(<<0>>, <<0000, 0010>>) >>,
    << S("HalfMaxUFix64"), D(<<0>>, <<0000, 0100>>) >>,
    << S("HalfMaxUFix64"), D(<<0>>, <<0001>>) >>,
    << S("HalfMaxUFix64"), D(<<0>>, <<0010>>) >>,
    << S("HalfMaxUFix64"), D(<<0>>, <<0100>>) >>,
    << S("HalfMaxUFix64"), D(<<0>>, <<1000>>) >>
>>

\* testgen/div64.py lines 147-158
DivUFix64UnderflowTests == <<
    << D(<<0>>, <<0000, 0001>>), D(<<2>>, <<>>) >>,
    << D(<<0>>, <<0000, 0001>>), D(<<10>>, <<>>) >>,
    << D(<<0>>, <<0000, 0001>>), D(<<100>>, <<>>) >>,
    << D(<<0>>, <<0000, 0001>>), D(<<1000>>, <<>>) >>,
    << D(<<0>>, <<0000, 0001>>), D(<<1, 0000, 0000>>, <<>>) >>,
    << D(<<1>>, <<>>), D(<<1844, 6744, 0737>>, <<0955, 1615>>) >>,
    << D(<<1>>, <<>>), D(<<1000, 0000, 0000>>, <<>>) >>,
    << D(<<1>>, <<>>), D(<<999, 9999, 9999>>, <<>>) >>,
    << D(<<0>>, <<0000, 0001>>), D(<<1844, 6744, 0737>>, <<0955, 1615>>) >>,
    << D(<<0>>, <<0000, 0001>>), D(<<999, 9999, 9999>>, <<>>) >>
>>

\* testgen/div64.py lines 160-165
DivUFix64DivByZeroTests == <<
    << D(<<1>>, <<>>), D(<<0>>, <<>>) >>,
    << D(<<0>>, <<>>), D(<<0>>, <<>>) >>,
    << S("MaxUFix64"), D(<<0>>, <<>>) >>,
    << S("HalfMaxUFix64"), D(<<0>>, <<>>) >>
>>

\* testgen/div64.py lines 168-426
DivFix64Tests == <<
    << D(<<1>>, <<>>), D(<<1>>, <<>>) >>,
    << D(<<1>>, <<>>), D(<<1, 0000, 0000>>, <<>>) >>,
    << D(<<1>>, <<1000>>), D(<<1, 0000, 0001>>, <<>>) >>,
    << D(<<10>>, <<>>), D(<<1, 0000, 0001>>, <<>>) >>,
    << D(<<1, 0000, 0000>>, <<>>), D(<<1, 0000, 0000>>, <<>>) >>,
    << D(<<1, 0000, 0000>>, <<>>), D(<<9999, 9999>>, <<>>) >>,
    << D(<<1, 0000, 0000>>, <<>>), D(<<1, 0000, 0001>>, <<>>) >>,
    << D(<<5>>, <<>>), N(<<1>>, <<>>) >>,
    << D(<<5>>, <<>>), N(<<2>>, <<>>) >>,
    << D(<<5>>, <<>>), N(<<3>>, <<>>) >>,
    << D(<<5>>, <<>>), N(<<4>>, <<>>) >>,
    << D(<<5>>, <<>>), N(<<5>>, <<>>) >>,
    << D(<<5>>, <<>>), N(<<6>>, <<>>) >>,
    << D(<<5>>, <<>>), N(<<7>>, <<>>) >>,
    << D(<<5>>, <<>>), N(<<8>>, <<>>) >>,
    << D(<<5>>, <<>>), N(<<9>>, <<>>) >>,
    << D(<<5>>, <<>>), N(<<10>>, <<>>) >>,
    << D(<<1>>, <<>>), D(<<0>>, <<5000>>) >>,
    << D(<<1>>, <<>>), D(<<2>>, <<>>) >>,
    << D(<<2>>, <<>>), D(<<1>>, <<>>) >>,
    << D(<<1>>, <<>>), N(<<2>>, <<>>) >>,
    << N(<<2>>, <<>>), D(<<2>>, <<>>) >>,
    << N(<<2>>, <<>>), N(<<2>>, <<>>) >>,
    << D(<<1>>, <<>>), D(<<9999, 9999>>, <<>>) >>,
    << D(<<123>>, <<4560>>), D(<<789>>, <<0120>>) >>,
    << D(<<456>>, <<7890>>), D(<<123>>, <<4560>>) >>,
    << D(<<0>>, <<0001, 2300>>), D(<<0>>, <<0004, 5600>>) >>,
    << D(<<0>>, <<0007, 8900>>), D(<<0>>, <<0003, 2100>>) >>,
    << D(<<9, 8765>>, <<4321>>), D(<<1, 2345>>, <<6789>>) >>,
    << D(<<3, 1415>>, <<9265>>), D(<<2, 7182>>, <<8182>>) >>,
    << D(<<1>>, <<2345, 6789>>), D(<<0>>, <<9876, 5432>>) >>,
    << D(<<0>>, <<9999, 9999>>), D(<<0>>, <<0000, 0001>>) >>,
    << D(<<123>>, <<4560>>), D(<<789>>, <<0120>>) >>,
    << N(<<456>>, <<7890>>), D(<<123>>, <<4560>>) >>,
    << D(<<0>>, <<0001, 2300>>), D(<<0>>, <<0004, 5600>>) >>,
    << N(<<0>>, <<0007, 8900>>), D(<<0>>, <<0003, 2100>>) >>,
    << D(<<9, 8765>>, <<4321>>), N(<<1, 2345>>, <<6789>>) >>,
    << D(<<3, 1415>>, <<9265>>), D(<<2, 7182>>, <<8182>>) >>,
    << N(<<2, 7182>>, <<8182>>), N(<<3, 1415>>, <<9265>>) >>,
    << D(<<1>>, <<2345, 6789>>), N(<<0>>, <<9876, 5432>>) >>,
    << D(<<0>>, <<9999, 9999>>), D(<<0>>, <<0000, 0001>>) >>,
    << N(<<0>>, <<9999, 9999>>), N(<<0>>, <<0000, 0001>>) >>,
    << S("MaxFix64"), D(<<30, 3700>>, <<0499>>) >>,
    << S("MaxFix64"), D(<<30, 3700>>, <<0499>>) >>,
    << S("MaxFix64"), D(<<30, 3700>>, <<0499, 9760>>) >>,
    << S("MaxFix64"), N(<<30, 3700>>, <<0499>>) >>,
    << S("MaxFix64"), N(<<30, 3700>>, <<0499>>) >>,
    << S("MaxFix64"), N(<<30, 3700>>, <<0499, 9760>>) >>,
    << S("MinFix64"), D(<<30, 3700>>, <<0499>>) >>,
    << S("MinFix64"), D(<<30, 3700>>, <<0499>>) >>,
    << S("MinFix64"), D(<<30, 3700>>, <<0499, 9760>>) >>,
    << S("MinFix64"), N(<<30, 3700>>, <<0499>>) >>,
    << S("MinFix64"), N(<<30, 3700>>, <<0499>>) >>,
    << S("MinFix64"), N(<<30, 3700>>, <<0499, 9760>>) >>,
    << S("MaxFix64"), D(<<1>>, <<>>) >>,
    << S("MaxFix64"), D(<<10>>, <<>>) >>,
    << S("MaxFix64"), D(<<100>>, <<>>) >>,
    << S("MaxFix64"), D(<<1000>>, <<>>) >>,
    << S("MaxFix64"), D(<<1, 0000>>, <<>>) >>,
    << S("MaxFix64"), D(<<10, 0000>>, <<>>) >>,
    << S("MaxFix64"), D(<<100, 0000>>, <<>>) >>,
    << S("MaxFix64"), D(<<1000, 0000>>, <<>>) >>,
    << S("MaxFix64"), D(<<1, 0000, 0000>>, <<>>) >>,
    << S("MaxFix64"), D(<<10, 0000, 0000>>, <<>>) >>,
    << S("MaxFix64"), D(<<100, 0000, 0000>>, <<>>) >>,
    << S("MaxFix64"), N(<<1>>, <<>>) >>,
    << S("MaxFix64"), N(<<10>>, <<>>) >>,
    << S("MaxFix64"), N(<<100>>, <<>>) >>,
    << S("MaxFix64"), N(<<1000>>, <<>>) >>,
    << S("MaxFix64"), N(<<1, 0000>>, <<>>) >>,
    << S("MaxFix64"), N(<<10, 0000>>, <<>>) >>,
    << S("MaxFix64"), N(<<100, 0000>>, <<>>) >>,
    << S("MaxFix64"), N(<<1000, 0000>>, <<>>) >>,
    << S("MaxFix64"), N(<<1, 0000, 0000>>, <<>>) >>,
    << S("MaxFix64"), N(<<10, 0000, 0000>>, <<>>) >>,
    << S("MaxFix64"), N(<<100, 0000, 0000>>, <<>>) >>,
    << S("MinFix64"), D(<<1>>, <<>>) >>,
    << S("MinFix64"), D(<<10>>, <<>>) >>,
    << S("MinFix64"), D(<<100>>, <<>>) >>,
    << S("MinFix64"), D(<<1000>>, <<>>) >>,
    << S("MinFix64"), D(<<1, 0000>>, <<>>) >>,
    << S("MinFix64"), D(<<10, 0000>>, <<>>) >>,
    << S("MinFix64"), D(<<100, 0000>>, <<>>) >>,
    << S("MinFix64"), D(<<1000, 0000>>, <<>>) >>,
    << S("MinFix64"), D(<<1, 0000, 0000>>, <<>>) >>,
    << S("MinFix64"), D(<<10, 0000, 0000>>, <<>>) >>,
    << S("MinFix64"), D(<<100, 0000, 0000>>, <<>>) >>,
    << SP("MinFix64", D(<<0>>, <<0000, 0001>>)), N(<<1>>, <<>>) >>,
    << S("MinFix64"), N(<<10>>, <<>>) >>,
    << S("MinFix64"), N(<<100>>, <<>>) >>,
    << S("MinFix64"), N(<<1000>>, <<>>) >>,
    << S("MinFix64"), N(<<1, 0000>>, <<>>) >>,
    << S("MinFix64"), N(<<10, 0000>>, <<>>) >>,
    << S("MinFix64"), N(<<100, 0000>>, <<>>) >>,
    << S("MinFix64"), N(<<1000, 0000>>, <<>>) >>,
    << S("MinFix64"), N(<<1, 0000, 0000>>, <<>>) >>,
    << S("MinFix64"), N(<<10, 0000, 0000>>, <<>>) >>,
    << S("MinFix64"), N(<<100, 0000, 0000>>, <<>>) >>,
    << S("MaxFix64"), D(<<1>>, <<>>) >>,
    << S("HalfMaxFix64"), D(<<0>>, <<5000>>) >>,
    << S("MaxFix64"), N(<<1>>, <<>>) >>,
    << S("HalfMaxFix64"), N(<<0>>, <<5000>>) >>,
    << S("MinFix64"), D(<<1>>, <<>>) >>,
    << SP("HalfMinFix64", D(<<0>>, <<0000, 0001>>)), D(<<0>>, <<5000>>) >>,
    << SP("MinFix64", D(<<0>>, <<0000, 0001>>)), N(<<1>>, <<>>) >>,
    << SP("HalfMinFix64", D(<<0>>, <<0000, 0001>>)), N(<<0>>, <<5000>>) >>,
    << S("MaxFix64"), D(<<1>>, <<>>) >>,
    << S("MaxFix64"), D(<<2>>, <<>>) >>,
    << S("MaxFix64"), S("MaxFix64") >>,
    << S("MinFix64"), D(<<1>>, <<>>) >>,
    << S("MinFix64"), D(<<2>>, <<>>) >>,
    << S("MinFix64"), S("MinFix64") >>,
    << D(<<0>>, <<0000, 0001>>), D(<<1>>, <<>>) >>,
    << D(<<0>>, <<0000, 0010>>), D(<<10>>, <<>>) >>,
    << D(<<0>>, <<0000, 0100>>), D(<<100>>, <<>>) >>,
    << D(<<0>>, <<0000, 1000>>), D(<<1000>>, <<>>) >>,
    << D(<<0>>, <<0001>>), D(<<1, 0000>>, <<>>) >>,
    << D(<<0>>, <<0010>>), D(<<10, 0000>>, <<>>) >>,
    << D(<<0>>, <<0100>>), D(<<100, 0000>>, <<>>) >>,
    << D(<<0>>, <<1000>>), D(<<1000, 0000>>, <<>>) >>,
    << D(<<1>>, <<>>), D(<<1, 0000, 0000>>, <<>>) >>,
    << D(<<0>>, <<0000, 0005>>), D(<<5>>, <<>>) >>,
    << D(<<0>>, <<0000, 0002>>), D(<<2>>, <<>>) >>,
    << D(<<0>>, <<0000, 0001>>), N(<<1>>, <<>>) >>,
    << D(<<0>>, <<0000, 0010>>), N(<<10>>, <<>>) >>,
    << D(<<0>>, <<0000, 0100>>), N(<<100>>, <<>>) >>,
    << D(<<0>>, <<0000, 1000>>), N(<<1000>>, <<>>) >>,
    << D(<<0>>, <<0001>>), N(<<1, 0000>>, <<>>) >>,
    << D(<<0>>, <<0010>>), N(<<10, 0000>>, <<>>) >>,
    << D(<<0>>, <<0100>>), N(<<100, 0000>>, <<>>) >>,
    << D(<<0>>, <<1000>>), N(<<1000, 0000>>, <<>>) >>,
    << D(<<1>>, <<>>), N(<<1, 0000, 0000>>, <<>>) >>,
    << D(<<0>>, <<0000, 0005>>), N(<<5>>, <<>>) >>,
    << D(<<0>>, <<0000, 0002>>), N(<<2>>, <<>>) >>,
    << N(<<0>>, <<0000, 0001>>), D(<<1>>, <<>>) >>,
    << N(<<0>>, <<0000, 0010>>), D(<<10>>, <<>>) >>,
    << N(<<0>>, <<0000, 0100>>), D(<<100>>, <<>>) >>,
    << N(<<0>>, <<0000, 1000>>), D(<<1000>>, <<>>) >>,
    << N(<<0>>, <<0001>>), D(<<1, 0000>>, <<>>) >>,
    << N(<<0>>, <<0010>>), D(<<10, 0000>>, <<>>) >>,
    << N(<<0>>, <<0100>>), D(<<100, 0000>>, <<>>) >>,
    << N(<<0>>, <<1000>>), D(<<1000, 0000>>, <<>>) >>,
    << N(<<1>>, <<>>), D(<<1, 0000, 0000>>, <<>>) >>,
    << N(<<0>>, <<0000, 0005>>), D(<<5>>, <<>>) >>,
    << N(<<0>>, <<0000, 0002>>), D(<<2>>, <<>>) >>,
    << N(<<0>>, <<0000, 0001>>), N(<<1>>, <<>>) >>,
    << N(<<0>>, <<0000, 0010>>), N(<<10>>, <<>>) >>,
    << N(<<0>>, <<0000, 0100>>), N(<<100>>, <<>>) >>,
    << N(<<0>>, <<0000, 1000>>), N(<<1000>>, <<>>) >>,
    << N(<<0>>, <<0001>>), N(<<1, 0000>>, <<>>) >>,
    << N(<<0>>, <<0010>>), N(<<10, 0000>>, <<>>) >>,
    << N(<<0>>, <<0100>>), N(<<100, 0000>>, <<>>) >>,
    << N(<<0>>, <<1000>>), N(<<1000, 0000>>, <<>>) >>,
    << N(<<1>>, <<>>), N(<<1, 0000, 0000>>, <<>>) >>,
    << N(<<0>>, <<0000, 0005>>), N(<<5>>, <<>>) >>,
    << N(<<0>>, <<0000, 0002>>), N(<<2>>, <<>>) >>,
    << D(<<0>>, <<0000, 0001>>), D(<<0>>, <<9999, 9999>>) >>,
    << D(<<0>>, <<0000, 0010>>), D(<<9>>, <<9999, 9999>>) >>,
    << D(<<0>>, <<0000, 0100>>), D(<<99>>, <<9999, 9999>>) >>,
    << D(<<0>>, <<0000, 1000>>), D(<<999>>, <<9999, 9999>>) >>,
    << D(<<0>>, <<0001>>), D(<<9999>>, <<9999, 9999>>) >>,
    << D(<<0>>, <<0010>>), D(<<9, 9999>>, <<9999, 9999>>) >>,
    << D(<<0>>, <<0100>>), D(<<99, 9999>>, <<9999, 9999>>) >>,
    << D(<<0>>, <<1000>>), D(<<999, 9999>>, <<9999, 9999>>) >>,
    << D(<<1>>, <<>>), D(<<9999, 9999>>, <<9999, 9999>>) >>,
    << D(<<0>>, <<0000, 0001>>), N(<<0>>, <<9999, 9999>>) >>,
    << D(<<0>>, <<0000, 0010>>), N(<<9>>, <<9999, 9999>>) >>,
    << D(<<0>>, <<0000, 0100>>), N(<<99>>, <<9999, 9999>>) >>,
    << D(<<0>>, <<0000, 1000>>), N(<<999>>, <<9999, 9999>>) >>,
    << D(<<0>>, <<0001>>), N(<<9999>>, <<9999, 9999>>) >>,
    << D(<<0>>, <<0010>>), N(<<9, 9999>>, <<9999, 9999>>) >>,
    << D(<<0>>, <<0100>>), N(<<99, 9999>>, <<9999, 9999>>) >>,
    << D(<<0>>, <<1000>>), N(<<999, 9999>>, <<9999, 9999>>) >>,
    << D(<<1>>, <<>>), N(<<9999, 9999>>, <<9999, 9999>>) >>,
    << N(<<0>>, <<0000, 0001>>), D(<<0>>, <<9999, 9999>>) >>,
    << N(<<0>>, <<0000, 0010>>), D(<<9>>, <<9999, 9999>>) >>,
    << N(<<0>>, <<0000, 0100>>), D(<<99>>, <<9999, 9999>>) >>,
    << N(<<0>>, <<0000, 1000>>), D(<<999>>, <<9999, 9999>>) >>,
    << N(<<0>>, <<0001>>), D(<<9999>>, <<9999, 9999>>) >>,
    << N(<<0>>, <<0010>>), D(<<9, 9999>>, <<9999, 9999>>) >>,
    << N(<<0>>, <<0100>>), D(<<99, 9999>>, <<9999, 9999>>) >>,
    << N(<<0>>, <<1000>>), D(<<999, 9999>>, <<9999, 9999>>) >>,
    << N(<<1>>, <<>>), D(<<9999, 9999>>, <<9999, 9999>>) >>,
    << N(<<0>>, <<0000, 0001>>), N(<<0>>, <<9999, 9999>>) >>,
    << N(<<0>>, <<0000, 0010>>), N(<<9>>, <<9999, 9999>>) >>,
    << N(<<0>>, <<0000, 0100>>), N(<<99>>, <<9999, 9999>>) >>,
    << N(<<0>>, <<0000, 1000>>), N(<<999>>, <<9999, 9999>>) >>,
    << N(<<0>>, <<0001>>), N(<<9999>>, <<9999, 9999>>) >>,
    << N(<<0>>, <<0010>>), N(<<9, 9999>>, <<9999, 9999>>) >>,
    << N(<<0>>, <<0100>>), N(<<99, 9999>>, <<9999, 9999>>) >>,
    << N(<<0>>, <<1000>>), N(<<999, 9999>>, <<9999, 9999>>) >>,
    << N(<<1>>, <<>>), N(<<9999, 9999>>, <<9999, 9999>>) >>,
    << D(<<922, 3372, 0368>>, <<5477, 5807>>), D(<<1>>, <<>>) >>,
    << D(<<92, 2337, 2036>>, <<8547, 7580>>), D(<<0>>, <<1000>>) >>,
    << D(<<9, 2233, 7203>>, <<6854, 7758>>), D(<<0>>, <<0100>>) >>,
    << D(<<9223, 3720>>, <<3685, 4775>>), D(<<0>>, <<0010>>) >>,
    << D(<<922, 3372>>, <<0368, 5477>>), D(<<0>>, <<0001>>) >>,
    << D(<<92, 2337>>, <<2036, 8547>>), D(<<0>>, <<0000, 1000>>) >>,
    << D(<<9, 2233>>, <<7203, 6854>>), D(<<0>>, <<0000, 0100>>) >>,
    << D(<<9223>>, <<3720, 3685>>), D(<<0>>, <<0000, 0010>>) >>,
    << D(<<922>>, <<3372, 0368>>), D(<<0>>, <<0000, 0001>>) >>,
    << D(<<922, 3372, 0368>>, <<5477, 5807>>), N(<<1>>, <<>>) >>,
    << D(<<92, 2337, 2036>>, <<8547, 7580>>), N(<<0>>, <<1000>>) >>,
    << D(<<9, 2233, 7203>>, <<6854, 7758>>), N(<<0>>, <<0100>>) >>,
    << D(<<9223, 3720>>, <<3685, 4775>>), N(<<0>>, <<0010>>) >>,
    << D(<<922, 3372>>, <<0368, 5477>>), N(<<0>>, <<0001>>) >>,
    << D(<<92, 2337>>, <<2036, 8547>>), N(<<0>>, <<0000, 1000>>) >>,
    << D(<<9, 2233>>, <<7203, 6854>>), N(<<0>>, <<0000, 0100>>) >>,
    << D(<<9223>>, <<3720, 3685>>), N(<<0>>, <<0000, 0010>>) >>,
    << D(<<922>>, <<3372, 0368>>), N(<<0>>, <<0000, 0001>>) >>,
    << N(<<922, 3372, 0368>>, <<5477, 5808>>), D(<<1>>, <<>>) >>,
    << N(<<92, 2337, 2036>>, <<8547, 7580>>), D(<<0>>, <<1000>>) >>,
    << N(<<9, 2233, 7203>>, <<6854, 7758>>), D(<<0>>, <<0100>>) >>,
    << N(<<9223, 3720>>, <<3685, 4775>>), D(<<0>>, <<0010>>) >>,
    << N(<<922, 3372>>, <<0368, 5477>>), D(<<0>>, <<0001>>) >>,
    << N(<<92, 2337>>, <<2036, 8547>>), D(<<0>>, <<0000, 1000>>) >>,
    << N(<<9, 2233>>, <<7203, 6854>>), D(<<0>>, <<0000, 0100>>) >>,
    << N(<<9223>>, <<3720, 3685>>), D(<<0>>, <<0000, 0010>>) >>,
    << N(<<922>>, <<3372, 0368>>), D(<<0>>, <<0000, 0001>>) >>,
    << N(<<922, 3372, 0368>>, <<5477, 5807>>), N(<<1>>, <<>>) >>,
    << N(<<92, 2337, 2036>>, <<8547, 7580>>), N(<<0>>, <<1000>>) >>,
    << N(<<9, 2233, 7203>>, <<6854, 7758>>), N(<<0>>, <<0100>>) >>,
    << N(<<9223, 3720>>, <<3685, 4775>>), N(<<0>>, <<0010>>) >>,
    << N(<<922, 3372>>, <<0368, 5477>>), N(<<0>>, <<0001>>) >>,
    << N(<<92, 2337>>, <<2036, 8547>>), N(<<0>>, <<0000, 1000>>) >>,
    << N(<<9, 2233>>, <<7203, 6854>>), N(<<0>>, <<0000, 0100>>) >>,
    << N(<<9223>>, <<3720, 3685>>), N(<<0>>, <<0000, 0010>>) >>,
    << N(<<922>>, <<3372, 0368>>), N(<<0>>, <<0000, 0001>>) >>
>>

\* testgen/div64.py lines 429-459
DivFix64OverflowTests == <<
    << S("MinFix64"), N(<<0>>, <<0000, 0001>>) >>,
    << S("MinFix64"), N(<<0>>, <<0000, 0010>>) >>,
    << S("MinFix64"), N(<<0>>, <<0000, 0100>>) >>,
    << S("MinFix64"), N(<<0>>, <<0001>>) >>,
    << S("MinFix64"), N(<<0>>, <<0010>>) >>,
    << S("MinFix64"), N(<<0>>, <<0100>>) >>,
    << S("MinFix64"), N(<<0>>, <<1000>>) >>,
    << S("MinFix64"), N(<<0>>, <<9999, 9999>>) >>,
    << S("HalfMinFix64"), N(<<0>>, <<0000, 0001>>) >>,
    << S("HalfMinFix64"), N(<<0>>, <<0000, 0010>>) >>,
    << S("HalfMinFix64"), N(<<0>>, <<0000, 0100>>) >>,
    << S("HalfMinFix64"), N(<<0>>, <<0001>>) >>,
    << S("HalfMinFix64"), N(<<0>>, <<0010>>) >>,
    << S("HalfMinFix64"), N(<<0>>, <<0100>>) >>,
    << S("HalfMinFix64"), N(<<0>>, <<1000>>) >>,
    << S("MaxFix64"), D(<<0>>, <<0000, 0001>>) >>,
    << S("MaxFix64"), D(<<0>>, <<0000, 0010>>) >>,
    << S("MaxFix64"), D(<<0>>, <<0000, 0100>>) >>,
    << S("MaxFix64"), D(<<0>>, <<0001>>) >>,
    << S("MaxFix64"), D(<<0>>, <<0010>>) >>,
    << S("MaxFix64"), D(<<0>>, <<0100>>) >>,
    << S("MaxFix64"), D(<<0>>, <<1000>>) >>,
    << S("HalfMaxFix64"), D(<<0>>, <<0000, 0001>>) >>,
    << S("HalfMaxFix64"), D(<<0>>, <<0000, 0010>>) >>,
    << S("HalfMaxFix64"), D(<<0>>, <<0000, 0100>>) >>,
    << S("HalfMaxFix64"), D(<<0>>, <<0001>>) >>,
    << S("HalfMaxFix64"), D(<<0>>, <<0010>>) >>,
    << S("HalfMaxFix64"), D(<<0>>, <<0100>>) >>,
    << S("HalfMaxFix64"), D(<<0>>, <<1000>>) >>
>>

\* testgen/div64.py lines 461-491
DivFix64NegOverflowTests == <<
    << S("MinFix64"), D(<<0>>, <<0000, 0001>>) >>,
    << S("MinFix64"), D(<<0>>, <<0000, 0010>>) >>,
    << S("MinFix64"), D(<<0>>, <<0000, 0100>>) >>,
    << S("MinFix64"), D(<<0>>, <<0001>>) >>,
    << S("MinFix64"), D(<<0>>, <<0010>>) >>,
    << S("MinFix64"), D(<<0>>, <<0100>>) >>,
    << S("MinFix64"), D(<<0>>, <<1000>>) >>,
    << S("MinFix64"), D(<<0>>, <<9999, 9999>>) >>,
    << S("HalfMinFix64"), D(<<0>>, <<0000, 0001>>) >>,
    << S("HalfMinFix64"), D(<<0>>, <<0000, 0010>>) >>,
    << S("HalfMinFix64"), D(<<0>>, <<0000, 0100>>) >>,
    << S("HalfMinFix64"), D(<<0>>, <<0001>>) >>,
    << S("HalfMinFix64"), D(<<0>>, <<0010>>) >>,
    << S("HalfMinFix64"), D(<<0>>, <<0100>>) >>,
    << S("HalfMinFix64"), D(<<0>>, <<1000>>) >>,
    << S("MaxFix64"), N(<<0>>, <<0000, 0001>>) >>,
    << S("MaxFix64"), N(<<0>>, <<0000, 0010>>) >>,
    << S("MaxFix64"), N(<<0>>, <<0000, 0100>>) >>,
    << S("MaxFix64"), N(<<0>>, <<0001>>) >>,
    << S("MaxFix64"), N(<<0>>, <<0010>>) >>,
    << S("MaxFix64"), N(<<0>>, <<0100>>) >>,
    << S("MaxFix64"), N(<<0>>, <<1000>>) >>,
    << S("HalfMaxFix64"), N(<<0>>, <<0000, 0001>>) >>,
    << S("HalfMaxFix64"), N(<<0>>, <<0000, 0010>>) >>,
    << S("HalfMaxFix64"), N(<<0>>, <<0000, 0100>>) >>,
    << S("HalfMaxFix64"), N(<<0>>, <<0001>>) >>,
    << S("HalfMaxFix64"), N(<<0>>, <<0010>>) >>,
    << S("HalfMaxFix64"), N(<<0>>, <<0100>>) >>,
    << S("HalfMaxFix64"), N(<<0>>, <<1000>>) >>
>>

\* testgen/div64.py lines 494-508
DivFix64UnderflowTests == <<
    << D(<<0>>, <<0000, 0001>>), D(<<1>>, <<0000, 0010>>) >>,
    << D(<<0>>, <<0000, 0001>>), D(<<1>>, <<1000>>) >>,
    << D(<<0>>, <<0000, 0001>>), D(<<2>>, <<>>) >>,
    << D(<<0>>, <<0000, 0001>>), D(<<10>>, <<>>) >>,
    << D(<<0>>, <<0000, 0001>>), D(<<100>>, <<>>) >>,
    << D(<<0>>, <<0000, 0001>>), D(<<1000>>, <<>>) >>,
    << D(<<0>>, <<0000, 0001>>), D(<<1, 0000, 0000>>, <<>>) >>,
    << D(<<1>>, <<>>), D(<<922, 3372, 0368>>, <<5477, 5807>>) >>,
    << D(<<1>>, <<>>), D(<<900, 0000, 0000>>, <<>>) >>,
    << D(<<1>>, <<>>), D(<<800, 0000, 0000>>, <<>>) >>,
    << D(<<0>>, <<0000, 0001>>), D(<<922, 3372, 0368>>, <<5477, 5807>>) >>,
    << D(<<0>>, <<0000, 0001>>), D(<<800, 0000, 0000>>, <<>>) >>
>>

\* testgen/div64.py lines 510-517
DivFix64DivByZeroTests == <<
    << D(<<1>>, <<>>), D(<<0>>, <<>>) >>,
    << D(<<0>>, <<>>), D(<<0>>, <<>>) >>,
    << S("MaxFix64"), D(<<0>>, <<>>) >>,
    << S("MinFix64"), D(<<0>>, <<>>) >>,
    << S("HalfMaxFix64"), D(<<0>>, <<>>) >>,
    << S("HalfMinFix64"), D(<<0>>, <<>>) >>
>>

\* generators/trans64.py lines 10-29
SqrtUFix64Tests == <<
    D(<<0>>, <<>>),                                      \* 0
    D(<<1>>, <<>>),                                      \* 1
    D(<<4>>, <<>>),                                      \* 4
    D(<<16>>, <<>>),                                     \* 16
    D(<<100>>, <<>>),                                    \* 100
    D(<<1, 0000>>, <<>>),                                \* 10000
    S("MaxUFix64"),                                      \* MaxUFix64
    S("HalfMaxUFix64"),                                  \* HalfMaxUFix64
    D(<<0>>, <<0001>>),                                  \* 0.0001
    D(<<0>>, <<0000, 0001>>),                            \* 1e-8
    D(<<0>>, <<0500>>),                                  \* 0.05
    D(<<0>>, <<5000>>),                                  \* 0.5
    D(<<0>>, <<0900>>),                                  \* 0.09
    D(<<0>>, <<0009>>),                                  \* 0.0009
    D(<<2>>, <<>>),                                      \* 2
    D(<<3>>, <<1415, 9265>>),                            \* 3.14159265
    D(<<6>>, <<2831, 8530>>),                            \* 6.28318530
    D(<<12, 3456, 7890>>, <<1234, 5678>>)                \* 1234567890.12345678
>>

\* generators/trans64.py lines 31-51
LnUFix64Tests == <<
    D(<<1>>, <<>>),                                      \* 1
    D(<<2>>, <<>>),                                      \* 2
    D(<<4>>, <<>>),                                      \* 4
    D(<<10>>, <<>>),                                     \* 10
    D(<<100>>, <<>>),                                    \* 100
    D(<<1, 0000>>, <<>>),                                \* 10000
    D(<<2>>, <<7182, 8183>>),                            \* 2.71828183
    D(<<7>>, <<3890, 5610>>),                            \* 7.38905610
    D(<<0>>, <<5000>>),                                  \* 0.5
    D(<<0>>, <<2500>>),                                  \* 0.25
    D(<<0>>, <<1250>>),                                  \* 0.125
    D(<<0>>, <<0100>>),                                  \* 0.01
    D(<<3>>, <<1415, 9265>>),                            \* 3.14159265
    D(<<6>>, <<2831, 8530>>),                            \* 6.28318530
    D(<<12, 3456, 7890>>, <<1234, 5678>>),               \* 1234567890.12345678
    S("MaxUFix64"),                                      \* MaxUFix64
    S("HalfMaxUFix64"),                                  \* HalfMaxUFix64
    D(<<0>>, <<0001>>),                                  \* 0.0001
    D(<<0>>, <<0000, 0001>>)                             \* 1e-8
>>

\* generators/trans64.py lines 54-130
SinCosFix64Tests == <<
    D(<<0>>, <<>>),                                      \* 0
    D(<<0>>, <<1000>>),                                  \* 0.1
    D(<<0>>, <<2500>>),                                  \* 0.25
    D(<<0>>, <<5000>>),                                  \* 0.5
    D(<<1>>, <<>>),                                      \* 1
    D(<<2>>, <<>>),                                      \* 2
    D(<<10>>, <<>>),                                     \* 10
    D(<<12, 3456>>, <<7890>>),                           \* 123456.789
    N(<<0>>, <<1000>>),                                  \* -0.1
    N(<<0>>, <<2500>>),                                  \* -0.25
    N(<<0>>, <<5000>>),                                  \* -0.5
    N(<<1>>, <<>>),                                      \* -1
    N(<<2>>, <<>>),                                      \* -2
    N(<<10>>, <<>>),                                     \* -10
    N(<<12, 3456>>, <<7890>>),                           \* -123456.789
    S("MaxFix64"),                                       \* MaxFix64
    SM("MaxFix64", D(<<1>>, <<>>)),                      \* MaxFix64 - 1.0
    SM("MaxFix64", D(<<0>>, <<0000, 0001>>)),            \* MaxFix64 - 1e-8
    S("HalfMaxFix64"),                                   \* HalfMaxFix64
    SM("HalfMaxFix64", D(<<1>>, <<>>)),                  \* HalfMaxFix64 - 1.0
    SM("HalfMaxFix64", D(<<0>>, <<0000, 0001>>)),        \* HalfMaxFix64 - 1e-8
    SP("HalfMaxFix64", D(<<1>>, <<>>)),                  \* HalfMaxFix64 + 1.0
    SP("HalfMaxFix64", D(<<0>>, <<0000, 0001>>)),        \* HalfMaxFix64 + 1e-8
    S("MinFix64"),                                       \* MinFix64
    SP("MinFix64", D(<<1>>, <<>>)),                      \* MinFix64 + 1.0
    SP("MinFix64", D(<<0>>, <<0000, 0001>>)),            \* MinFix64 + 1e-8
    S("HalfMinFix64"),                                   \* HalfMinFix64
    SM("HalfMinFix64", D(<<1>>, <<>>)),                  \* HalfMinFix64 - 1.0
    SM("HalfMinFix64", D(<<0>>, <<0000, 0001>>)),        \* HalfMinFix64 - 1e-8
    SP("HalfMinFix64", D(<<1>>, <<>>)),                  \* HalfMinFix64 + 1.0
    SP("HalfMinFix64", D(<<0>>, <<0000, 0001>>)),        \* HalfMinFix64 + 1e-8
    D(<<0>>, <<0001>>),                                  \* 0.0001
    D(<<0>>, <<0000, 0001>>),                            \* 1e-8
    D(<<0>>, <<5235, 9878>>),                            \* 0.52359878
    D(<<0>>, <<7853, 9816>>),                            \* 0.78539816
    D(<<1>>, <<0471, 9755>>),                            \* 1.04719755
    D(<<1>>, <<5707, 9633>>),                            \* 1.57079633
    D(<<3>>, <<1415, 9265>>),                            \* 3.14159265
    D(<<4>>, <<7123, 8898>>),                            \* 4.71238898
    D(<<6>>, <<2831, 8531>>),                            \* 6.28318531
    D(<<2>>, <<3561, 9449>>),                            \* 2.35619449
    N(<<0>>, <<5235, 9878>>),                            \* -0.52359878
    N(<<1>>, <<5707, 9633>>),                            \* -1.57079633
    N(<<3>>, <<1415, 9265>>),                            \* -3.14159265
    N(<<2>>, <<3561, 9449>>),                            \* -2.35619449
    D(<<0>>, <<5235, 9879>>),                            \* 0.52359879
    D(<<0>>, <<7853, 9817>>),                            \* 0.78539817
    D(<<1>>, <<0471, 9756>>),                            \* 1.04719756
    D(<<1>>, <<5707, 9634>>),                            \* 1.57079634
    D(<<3>>, <<1415, 9265>>),                            \* 3.14159265
    D(<<4>>, <<7123, 8899>>),                            \* 4.71238899
    D(<<6>>, <<2831, 8532>>),                            \* 6.28318532
    D(<<2>>, <<3561, 9450>>),                            \* 2.35619450
    N(<<0>>, <<5235, 9877>>),                            \* -0.52359877
    N(<<1>>, <<5707, 9632>>),                            \* -1.57079632
    N(<<3>>, <<1415, 9264>>),                            \* -3.14159264
    N(<<2>>, <<3561, 9448>>),                            \* -2.35619448
    D(<<0>>, <<5235, 9877>>),                            \* 0.52359877
    D(<<0>>, <<7853, 9815>>),                            \* 0.78539815
    D(<<1>>, <<0471, 9754>>),                            \* 1.04719754
    D(<<1>>, <<5707, 9632>>),                            \* 1.57079632
    D(<<3>>, <<1415, 9264>>),                            \* 3.14159264
    D(<<4>>, <<7123, 8897>>),                            \* 4.71238897
    D(<<6>>, <<2831, 8530>>),                            \* 6.28318530
    D(<<2>>, <<3561, 9448>>),                            \* 2.35619448
    N(<<0>>, <<5235, 9879>>),                            \* -0.52359879
    N(<<1>>, <<5707, 9634>>),                            \* -1.57079634
    N(<<3>>, <<1415, 9266>>),                            \* -3.14159266
    N(<<2>>, <<3561, 9450>>)                             \* -2.35619450
>>

\* generators/trans64.py lines 132-208
TanFix64Tests == <<
    D(<<0>>, <<>>),                                      \* 0
    D(<<0>>, <<1000>>),                                  \* 0.1
    D(<<0>>, <<2500>>),                                  \* 0.25
    D(<<0>>, <<5000>>),                                  \* 0.5
    D(<<1>>, <<>>),                                      \* 1
    D(<<2>>, <<>>),                                      \* 2
    D(<<10>>, <<>>),                                     \* 10
    D(<<12, 3456>>, <<7890>>),                           \* 123456.789
    N(<<0>>, <<1000>>),                                  \* -0.1
    N(<<0>>, <<2500>>),                                  \* -0.25
    N(<<0>>, <<5000>>),                                  \* -0.5
    N(<<1>>, <<>>),                                      \* -1
    N(<<2>>, <<>>),                                      \* -2
    N(<<10>>, <<>>),                                     \* -10
    N(<<12, 3456>>, <<7890>>),                           \* -123456.789
    S("MaxFix64"),                                       \* MaxFix64
    SM("MaxFix64", D(<<1>>, <<>>)),                      \* MaxFix64 - 1.0
    SM("MaxFix64", D(<<0>>, <<0000, 0001>>)),            \* MaxFix64 - 1e-8
    S("HalfMaxFix64"),                                   \* HalfMaxFix64
    SM("HalfMaxFix64", D(<<1>>, <<>>)),                  \* HalfMaxFix64 - 1.0
    SM("HalfMaxFix64", D(<<0>>, <<0000, 0001>>)),        \* HalfMaxFix64 - 1e-8
    SP("HalfMaxFix64", D(<<1>>, <<>>)),                  \* HalfMaxFix64 + 1.0
    SP("HalfMaxFix64", D(<<0>>, <<0000, 0001>>)),        \* HalfMaxFix64 + 1e-8
    S("MinFix64"),                                       \* MinFix64
    SP("MinFix64", D(<<1>>, <<>>)),                      \* MinFix64 + 1.0
    SP("MinFix64", D(<<0>>, <<0000, 0001>>)),            \* MinFix64 + 1e-8
    S("HalfMinFix64"),                                   \* HalfMinFix64
    SM("HalfMinFix64", D(<<1>>, <<>>)),                  \* HalfMinFix64 - 1.0
    SM("HalfMinFix64", D(<<0>>, <<0000, 0001>>)),        \* HalfMinFix64 - 1e-8
    SP("HalfMinFix64", D(<<1>>, <<>>)),                  \* HalfMinFix64 + 1.0
    SP("HalfMinFix64", D(<<0>>, <<0000, 0001>>)),        \* HalfMinFix64 + 1e-8
    D(<<0>>, <<0001>>),                                  \* 0.0001
    D(<<0>>, <<0000, 0001>>),                            \* 1e-8
    D(<<0>>, <<5235, 9878>>),                            \* 0.52359878
    D(<<0>>, <<7853, 9816>>),                            \* 0.78539816
    D(<<1>>, <<0471, 9755>>),                            \* 1.04719755
    D(<<1>>, <<5707, 9633>>),                            \* 1.57079633
    D(<<3>>, <<1415, 9265>>),                            \* 3.14159265
    D(<<4>>, <<7123, 8898>>),                            \* 4.71238898
    D(<<6>>, <<2831, 8531>>),                            \* 6.28318531
    D(<<2>>, <<3561, 9449>>),                            \* 2.35619449
    N(<<0>>, <<5235, 9878>>),                            \* -0.52359878
    N(<<1>>, <<5707, 9633>>),                            \* -1.57079633
    N(<<3>>, <<1415, 9265>>),                            \* -3.14159265
    N(<<2>>, <<3561, 9449>>),                            \* -2.35619449
    D(<<0>>, <<5235, 9879>>),                            \* 0.52359879
    D(<<0>>, <<7853, 9817>>),                            \* 0.78539817
    D(<<1>>, <<0471, 9756>>),                            \* 1.04719756
    D(<<1>>, <<5707, 9634>>),                            \* 1.57079634
    D(<<3>>, <<1415, 9265>>),                            \* 3.14159265
    D(<<4>>, <<7123, 8899>>),                            \* 4.71238899
    D(<<6>>, <<2831, 8532>>),                            \* 6.28318532
    D(<<2>>, <<3561, 9450>>),                            \* 2.35619450
    N(<<0>>, <<5235, 9877>>),                            \* -0.52359877
    N(<<1>>, <<5707, 9632>>),                            \* -1.57079632
    N(<<3>>, <<1415, 9264>>),                            \* -3.14159264
    N(<<2>>, <<3561, 9448>>),                            \* -2.35619448
    D(<<0>>, <<5235, 9877>>),                            \* 0.52359877
    D(<<0>>, <<7853, 9815>>),                            \* 0.78539815
    D(<<1>>, <<0471, 9754>>),                            \* 1.04719754
    D(<<1>>, <<5707, 9632>>),                            \* 1.57079632
    D(<<3>>, <<1415, 9264>>),                            \* 3.14159264
    D(<<4>>, <<7123, 8897>>),                            \* 4.71238897
    D(<<6>>, <<2831, 8530>>),                            \* 6.28318530
    D(<<2>>, <<3561, 9448>>),                            \* 2.35619448
    N(<<0>>, <<5235, 9879>>),                            \* -0.52359879
    N(<<1>>, <<5707, 9634>>),                            \* -1.57079634
    N(<<3>>, <<1415, 9266>>),                            \* -3.14159266
    N(<<2>>, <<3561, 9450>>)                             \* -2.35619450
>>

\* generators/trans64.py lines 210-223
TanFix64OverflowTests == <<
    D(<<1>>, <<5707, 9632>>),                            \* 1.57079632
    D(<<4>>, <<7123, 8898>>),                            \* 4.71238898
    N(<<1>>, <<5707, 9632>>),                            \* -1.57079632
    N(<<4>>, <<7123, 8898>>),                            \* -4.71238898
    D(<<7>>, <<8539, 8163>>),                            \* 7.85398163
    D(<<11>>, <<7809, 7245>>),                           \* 11.78097245
    D(<<4>>, <<7123, 8898>>),                            \* 4.71238898
    D(<<1>>, <<5707, 9632>>),                            \* 1.57079632
    N(<<4>>, <<7123, 8898>>),                            \* -4.71238898
    N(<<2>>, <<3561, 9449>>),                            \* -2.35619449
    N(<<7>>, <<8539, 8163>>),                            \* -7.85398163
    N(<<11>>, <<7809, 7245>>)                            \* -11.78097245
>>

\* generators/trans64.py lines 226-250
AsinAcosFix64Tests == <<
    D(<<0>>, <<>>),                                      \* 0
    D(<<0>>, <<1000>>),                                  \* 0.1
    D(<<0>>, <<2500>>),                                  \* 0.25
    D(<<0>>, <<5000>>),                                  \* 0.5
    D(<<1>>, <<>>),                                      \* 1
    N(<<0>>, <<1000>>),                                  \* -0.1
    N(<<0>>, <<2500>>),                                  \* -0.25
    N(<<0>>, <<5000>>),                                  \* -0.5
    N(<<1>>, <<>>),                                      \* -1
    D(<<0>>, <<9999, 9999>>),                            \* 0.99999999
    N(<<0>>, <<9999, 9999>>),                            \* -0.99999999
    D(<<0>>, <<7071, 0678>>),                            \* 0.70710678
    N(<<0>>, <<7071, 0678>>),                            \* -0.70710678
    D(<<0>>, <<8660, 2540>>),                            \* 0.86602540
    N(<<0>>, <<8660, 2540>>),                            \* -0.86602540
    D(<<0>>, <<5000>>),                                  \* 0.5
    N(<<0>>, <<5000>>),                                  \* -0.5
    D(<<0>>, <<2588, 1905>>),                            \* 0.25881905
    N(<<0>>, <<2588, 1905>>),                            \* -0.25881905
    D(<<0>>, <<3826, 8343>>),                            \* 0.38268343
    N(<<0>>, <<3826, 8343>>),                            \* -0.38268343
    D(<<0>>, <<0000, 0001>>),                            \* 1e-8
    N(<<0>>, <<0000, 0001>>)                             \* -1e-8
>>

\* generators/trans64.py lines 252-261
AsinAcosFix64RangeTests == <<
    D(<<1>>, <<0000, 0001>>),                            \* 1.00000001
    N(<<1>>, <<0000, 0001>>),                            \* -1.00000001
    D(<<2>>, <<>>),                                      \* 2.0
    N(<<2>>, <<>>),                                      \* -2.0
    S("MaxFix64"),                                       \* MaxFix64
    S("MinFix64"),                                       \* MinFix64
    S("HalfMaxFix64"),                                   \* HalfMaxFix64
    S("HalfMinFix64")                                    \* HalfMinFix64
>>

(* ------------------------------------------------------------------ *)
(* generators/decTrig.py and the loops of generators/trans64.py        *)
(* ------------------------------------------------------------------ *)

\* decTrig.py: the mpmath value read back as a Decimal; decSin alone
\* quantizes it, to 1e-8 with ROUND_HALF_UP
decTrig_decSin(x) ==
    Val(quantize(Lookup(MpSin, x).val, 2, "ROUND_HALF_UP"))
decTrig_decCos(x) == Lookup(MpCos, x)
decTrig_decTan(x) == Lookup(MpTan, x)
decAsin(x) == Lookup(MpAsin, x)
decAcos(x) == Lookup(MpAcos, x)

\* the rows a loop of trans64.py passes over, each with the outcome its
\* loop writes for it: "None" for the loop that computes a value, the
\* error of the comment for the loop that lists inputs only
Rows(expect, table) == [i \in 1..Len(table) |-> << expect, table[i] >>]

(* ------------------------------------------------------------------ *)
(* The generate_* functions of the table scripts                       *)
(* ------------------------------------------------------------------ *)

\* Every generate_* function, in the order of the scripts and of their
\* main(): the table it loops over, the operation and the type of the
\* table, the outcome the table expects of its rows ("None": a value),
\* the utils.py whose encoders the script imports, and whether the
\* function writes max(c, 0) for c.  testgen/add64.py lists the same rows
\* as generators/add64.py.
\* testgen/add64.py, sub64.py and mul64.py import the names go_hex and
\* MASK, which testgen/utils.py does not define (it defines go_hex64 and
\* MASK64): their functions are modelled as they run with go_hex bound to
\* go_hex64.  go_hex64 and go_hex128 only format a word; the model keeps
\* the word itself.
GenerateFunctions == <<
    [script |-> "generators/add64.py", func |-> "generate_add_ufix64_tests",
     table |-> AddUFix64Tests, op |-> "Add", type |-> "UFix64", expect |-> "None",
     utils |-> "generators", clamp |-> FALSE],
    [script |-> "generators/add64.py", func |-> "generate_add_ufix64_overflow_tests",
     table |-> AddUFix64OverflowTests, op |-> "Add", type |-> "UFix64", expect |-> "Overflow",
     utils |-> "generators", clamp |-> FALSE],
    [script |-> "generators/add64.py", func |-> "generate_add_fix64_tests",
     table |-> AddFix64Tests, op |-> "Add", type |-> "Fix64", expect |-> "None",
     utils |-> "generators", clamp |-> FALSE],
    [script |-> "generators/add64.py", func |-> "generate_add_fix64_overflow_tests",
     table |-> AddFix64OverflowTests, op |-> "Add", type |-> "Fix64", expect |-> "Overflow",
     utils |-> "generators", clamp |-> FALSE],
    [script |-> "generators/add64.py", func |-> "generate_add_fix64_neg_overflow_tests",
     table |-> AddFix64NegOverflowTests, op |-> "Add", type |-> "Fix64", expect |-> "NegOverflow",
     utils |-> "generators", clamp |-> FALSE],
    [script |-> "generators/add128.py", func |-> "generate_add_ufix128_tests",
     table |-> AddUFix128Tests, op |-> "Add", type |-> "UFix128", expect |-> "None",
     utils |-> "generators", clamp |-> FALSE],
    [script |-> "generators/add128.py", func |-> "generate_add_ufix128_overflow_tests",
     table |-> AddUFix128OverflowTests, op |-> "Add", type |-> "UFix128", expect |-> "Overflow",
     utils |-> "generators", clamp |-> FALSE],
    [script |-> "generators/add128.py", func |-> "generate_add_fix128_tests",
     table |-> AddFix128Tests, op |-> "Add", type |-> "Fix128", expect |-> "None",
     utils |-> "generators", clamp |-> FALSE],
    [script |-> "generators/add128.py", func |-> "generate_add_fix128_overflow_tests",
     table |-> AddFix128OverflowTests, op |-> "Add", type |-> "Fix128", expect |-> "Overflow",
     utils |-> "generators", clamp |-> FALSE],
    [script |-> "generators/add128.py", func |-> "generate_add_fix128_neg_overflow_tests",
     table |-> AddFix128NegOverflowTests, op |-> "Add", type |-> "Fix128", expect |-> "NegOverflow",
     utils |-> "generators", clamp |-> FALSE],
    [script |-> "generators/sub128.py", func |-> "generate_sub_ufix128_tests",
     table |-> SubUFix128Tests, op |-> "Sub", type |-> "UFix128", expect |-> "None",
     utils |-> "generators", clamp |-> TRUE],
    [script |-> "generators/sub128.py", func |-> "generate_sub_ufix128_neg_overflow_tests",
     table |-> SubUFix128NegOverflowTests, op |-> "Sub", type |-> "UFix128", expect |-> "NegOverflow",
     utils |-> "generators", clamp |-> FALSE],
    [script |-> "generators/sub128.py", func |-> "generate_sub_fix128_tests",
     table |-> SubFix128Tests, op |-> "Sub", type |-> "Fix128", expect |-> "None",
     utils |-> "generators", clamp |-> FALSE],
    [script |-> "generators/sub128.py", func |-> "generate_sub_fix128_overflow_tests",
     table |-> SubFix128OverflowTests, op |-> "Sub", type |-> "Fix128", expect |-> "Overflow",
     utils |-> "generators", clamp |-> FALSE],
    [script |-> "generators/sub128.py", func |-> "generate_sub_fix128_neg_overflow_tests",
     table |-> SubFix128NegOverflowTests, op |-> "Sub", type |-> "Fix128", expect |-> "NegOverflow",
     utils |-> "generators", clamp |-> FALSE],
    [script |-> "generators/mul128.py", func |-> "generate_mul_ufix128_tests",
     table |-> MulUFix128Tests, op |-> "Mul", type |-> "UFix128", expect |-> "None",
     utils |-> "generators", clamp |-> FALSE],
    [script |-> "generators/mul128.py", func |-> "generate_mul_ufix128_overflow_tests",
     table |-> MulUFix128OverflowTests, op |-> "Mul", type |-> "UFix128", expect |-> "Overflow",
     utils |-> "generators", clamp |-> FALSE],
    [script |-> "generators/mul128.py", func |-> "generate_mul_ufix128_underflow_tests",
     table |-> MulUFix128UnderflowTests, op |-> "Mul", type |-> "UFix128", expect |-> "Underflow",
     utils |-> "generators", clamp |-> FALSE],
    [script |-> "generators/mul128.py", func |-> "generate_mul_fix128_tests",
     table |-> MulFix128Tests, op |-> "Mul", type |-> "Fix128", expect |-> "None",
     utils |-> "generators", clamp |-> FALSE],
    [script |-> "generators/mul128.py", func |-> "generate_mul_fix128_overflow_tests",
     table |-> MulFix128OverflowTests, op |-> "Mul", type |-> "Fix128", expect |-> "Overflow",
     utils |-> "generators", clamp |-> FALSE],
    [script |-> "generators/mul128.py", func |-> "generate_mul_fix128_underflow_tests",
     table |-> MulFix128UnderflowTests, op |-> "Mul", type |-> "Fix128", expect |-> "Underflow",
     utils |-> "generators", clamp |-> FALSE],
    [script |-> "generators/mul128.py", func |-> "generate_mul_fix128_neg_overflow_tests",
     table |-> MulFix128NegOverflowTests, op |-> "Mul", type |-> "Fix128", expect |-> "NegOverflow",
     utils |-> "generators", clamp |-> FALSE],
    [script |-> "testgen/add64.py", func |-> "generate_add_ufix64_tests",
     table |-> AddUFix64Tests, op |-> "Add", type |-> "UFix64", expect |-> "None",
     utils |-> "testgen", clamp |-> FALSE],
    [script |-> "testgen/add64.py", func |-> "generate_add_ufix64_overflow_tests",
     table |-> AddUFix64OverflowTests, op |-> "Add", type |-> "UFix64", expect |-> "Overflow",
     utils |-> "testgen", clamp |-> FALSE],
    [script |-> "testgen/add64.py", func |-> "generate_add_fix64_tests",
     table |-> AddFix64Tests, op |-> "Add", type |-> "Fix64", expect |-> "None",
     utils |-> "testgen", clamp |-> FALSE],
    [script |-> "testgen/add64.py", func |-> "generate_add_fix64_overflow_tests",
     table |-> AddFix64OverflowTests, op |-> "Add", type |-> "Fix64", expect |-> "Overflow",
     utils |-> "testgen", clamp |-> FALSE],
    [script |-> "testgen/add64.py", func |-> "generate_add_fix64_neg_overflow_tests",
     table |-> AddFix64NegOverflowTests, op |-> "Add", type |-> "Fix64", expect |-> "NegOverflow",
     utils |-> "testgen", clamp |-> FALSE],
    [script |-> "testgen/sub64.py", func |-> "generate_sub_ufix64_tests",
     table |-> SubUFix64Tests, op |-> "Sub", type |-> "UFix64", expect |-> "None",
     utils |-> "testgen", clamp |-> TRUE],
    [script |-> "testgen/sub64.py", func |-> "generate_sub_ufix64_neg_overflow_tests",
     table |-> SubUFix64NegOverflowTests, op |-> "Sub", type |-> "UFix64", expect |-> "NegOverflow",
     utils |-> "testgen", clamp |-> FALSE],
    [script |-> "testgen/sub64.py", func |-> "generate_sub_fix64_tests",
     table |-> SubFix64Tests, op |-> "Sub", type |-> "Fix64", expect |-> "None",
     utils |-> "testgen", clamp |-> FALSE],
    [script |-> "testgen/sub64.py", func |-> "generate_sub_fix64_overflow_tests",
     table |-> SubFix64OverflowTests, op |-> "Sub", type |-> "Fix64", expect |-> "Overflow",
     utils |-> "testgen", clamp |-> FALSE],
    [script |-> "testgen/sub64.py", func |-> "generate_sub_fix64_neg_overflow_tests",
     table |-> SubFix64NegOverflowTests, op |-> "Sub", type |-> "Fix64", expect |-> "NegOverflow",
     utils |-> "testgen", clamp |-> FALSE],
    [script |-> "testgen/mul64.py", func |-> "generate_mul_ufix64_tests",
     table |-> MulUFix64Tests, op |-> "Mul", type |-> "UFix64", expect |-> "None",
     utils |-> "testgen", clamp |-> FALSE],
    [script |-> "testgen/mul64.py", func |-> "generate_mul_ufix64_overflow_tests",
     table |-> MulUFix64OverflowTests, op |-> "Mul", type |-> "UFix64", expect |-> "Overflow",
     utils |-> "testgen", clamp |-> FALSE],
    [script |-> "testgen/mul64.py", func |-> "generate_mul_ufix64_underflow_tests",
     table |-> MulUFix64UnderflowTests, op |-> "Mul", type |-> "UFix64", expect |-> "Underflow",
     utils |-> "testgen", clamp |-> FALSE],
    [script |-> "testgen/mul64.py", func |-> "generate_mul_fix64_tests",
     table |-> MulFix64Tests, op |-> "Mul", type |-> "Fix64", expect |-> "None",
     utils |-> "testgen", clamp |-> FALSE],
    [script |-> "testgen/mul64.py", func |-> "generate_mul_fix64_overflow_tests",
     table |-> MulFix64OverflowTests, op |-> "Mul", type |-> "Fix64", expect |-> "Overflow",
     utils |-> "testgen", clamp |-> FALSE],
    [script |-> "testgen/mul64.py", func |-> "generate_mul_fix64_neg_overflow_tests",
     table |-> MulFix64NegOverflowTests, op |-> "Mul", type |-> "Fix64", expect |-> "NegOverflow",
     utils |-> "testgen", clamp |-> FALSE],
    [script |-> "testgen/div64.py", func |-> "generate_div_ufix64_tests",
     table |-> DivUFix64Tests, op |-> "Div", type |-> "UFix64", expect |-> "None",
     utils |-> "testgen", clamp |-> FALSE],
    [script |-> "testgen/div64.py", func |-> "generate_div_ufix64_overflow_tests",
     table |-> DivUFix64OverflowTests, op |-> "Div", type |-> "UFix64", expect |-> "Overflow",
     utils |-> "testgen", clamp |-> FALSE],
    [script |-> "testgen/div64.py", func |-> "generate_div_ufix64_underflow_tests",
     table |-> DivUFix64UnderflowTests, op |-> "Div", type |-> "UFix64", expect |-> "Underflow",
     utils |-> "testgen", clamp |-> FALSE],
    [script |-> "testgen/div64.py", func |-> "generate_div_ufix64_divbyzero_tests",
     table |-> DivUFix64DivByZeroTests, op |-> "Div", type |-> "UFix64", expect |-> "DivByZero",
     utils |-> "testgen", clamp |-> FALSE],
    [script |-> "testgen/div64.py", func |-> "generate_div_fix64_tests",
     table |-> DivFix64Tests, op |-> "Div", type |-> "Fix64", expect |-> "None",
     utils |-> "testgen", clamp |-> FALSE],
    [script |-> "testgen/div64.py", func |-> "generate_div_fix64_overflow_tests",
     table |-> DivFix64OverflowTests, op |-> "Div", type |-> "Fix64", expect |-> "Overflow",
     utils |-> "testgen", clamp |-> FALSE],
    [script |-> "testgen/div64.py", func |-> "generate_div_fix64_neg_overflow_tests",
     table |-> DivFix64NegOverflowTests, op |-> "Div", type |-> "Fix64", expect |-> "NegOverflow",
     utils |-> "testgen", clamp |-> FALSE],
    [script |-> "testgen/div64.py", func |-> "generate_div_fix64_underflow_tests",
     table |-> DivFix64UnderflowTests, op |-> "Div", type |-> "Fix64", expect |-> "Underflow",
     utils |-> "testgen", clamp |-> FALSE],
    [script |-> "testgen/div64.py", func |-> "generate_div_fix64_divbyzero_tests",
     table |-> DivFix64DivByZeroTests, op |-> "Div", type |-> "Fix64", expect |-> "DivByZero",
     utils |-> "testgen", clamp |-> FALSE],
    [script |-> "generators/trans64.py", func |-> "generate_sqrt_ufix64_tests",
     table |-> Rows("None", SqrtUFix64Tests),
     op |-> "Sqrt", type |-> "UFix64", expect |-> "None",
     utils |-> "generators", clamp |-> FALSE],
    [script |-> "generators/trans64.py", func |-> "generate_ln_ufix64_tests",
     table |-> Rows("None", LnUFix64Tests),
     op |-> "Ln", type |-> "UFix64", expect |-> "None",
     utils |-> "generators", clamp |-> FALSE],
    [script |-> "generators/trans64.py", func |-> "generate_sin_fix64_tests",
     table |-> Rows("None", SinCosFix64Tests),
     op |-> "Sin", type |-> "Fix64", expect |-> "None",
     utils |-> "generators", clamp |-> FALSE],
    [script |-> "generators/trans64.py", func |-> "generate_cos_fix64_tests",
     table |-> Rows("None", SinCosFix64Tests),
     op |-> "Cos", type |-> "Fix64", expect |-> "None",
     utils |-> "generators", clamp |-> FALSE],
    [script |-> "generators/trans64.py", func |-> "generate_tan_fix64_tests",
     table |-> Rows("None", TanFix64Tests) \o Rows("Overflow", TanFix64OverflowTests),
     op |-> "Tan", type |-> "Fix64", expect |-> "None",
     utils |-> "generators", clamp |-> FALSE],
    [script |-> "generators/trans64.py", func |-> "generate_asin_fix64_tests",
     table |-> Rows("None", AsinAcosFix64Tests) \o Rows("RangeError", AsinAcosFix64RangeTests),
     op |-> "Asin", type |-> "Fix64", expect |-> "None",
     utils |-> "generators", clamp |-> FALSE],
    [script |-> "generators/trans64.py", func |-> "generate_acos_fix64_tests",
     table |-> Rows("None", AsinAcosFix64Tests) \o Rows("RangeError", AsinAcosFix64RangeTests),
     op |-> "Acos", type |-> "Fix64", expect |-> "None",
     utils |-> "generators", clamp |-> FALSE]
>>

\* to_ufix64 / to_fix64 / to_ufix128 / to_fix128 of the utils.py a script imports
encode(utils, type, val) ==
    CASE utils = "generators" /\ type = "UFix64"  -> to_ufix64(val)
      [] utils = "generators" /\ type = "Fix64"   -> to_fix64(val)
      [] utils = "generators" /\ type = "UFix128" -> to_ufix128(val)
      [] utils = "generators" /\ type = "Fix128"  -> to_fix128(val)
      [] utils = "testgen" /\ type = "UFix64"     -> testgen_to_ufix64(val)
      [] utils = "testgen" /\ type = "Fix64"      -> testgen_to_fix64(val)
      [] utils = "testgen" /\ type = "UFix128"    -> testgen_to_ufix128(val)
      [] utils = "testgen" /\ type = "Fix128"     -> testgen_to_fix128(val)

\* parseInput64 for the 64-bit scripts, parseInput128 for the 128-bit ones
parse(type, s) ==
    IF type \in {"UFix64", "Fix64"} THEN parseInput64(s) ELSE parseInput128(s)

\* c = a + b, a - b, a * b, or a / b inside try/except: c = Decimal('0')
TableResult(op, a, b) ==
    CASE op = "Add" -> DecAdd(a, b)
      [] op = "Sub" -> DecSub(a, b)
      [] op = "Mul" -> DecMul(a, b)
      [] op = "Div" -> IF is_zero(b) THEN Zero ELSE DecDiv(a, b)

\* min(c, 0) for max(c, 0)
min0(c) == IF DecGT(Zero, c) THEN c ELSE Zero

\* max(c, 0)
max0(c) == IF DecGT(Zero, c) THEN Zero ELSE c

\* a_hex, b_hex (and c_hex): the encoder applied to each of vals
EncodeAll(g, vals) == [i \in 1..Len(vals) |-> encode(g.utils, g.type, vals[i])]

\* a line of a table: the raw words, unless an encoder raised
Line(values, c, enc) ==
    IF \E i \in 1..Len(enc) : enc[i].exc # "None"
    THEN [exc |-> "ValueError", values |-> values, c |-> c, line |-> <<>>]
    ELSE [exc |-> "None", values |-> values, c |-> c, line |-> [i \in 1..Len(enc) |-> enc[i].val]]

ValueLine(g, a, b, c) ==
    Line(<<a, b>>, c, EncodeAll(g, <<a, b, IF g.clamp THEN max0(c) ELSE c>>))

ErrorLine(g, a, b) == Line(<<a, b>>, Unbound, EncodeAll(g, <<a, b>>))

\* the body of the loop of a generate_* function, pa and pb being what
\* parseInput returned or raised for the two inputs: for a value table
\* compute c and encode a, b and c; for an error table encode a and b
ParsedRow(g, pa, pb) ==
    IF pa.exc # "None" \/ pb.exc # "None"
    THEN [exc |-> "ValueError", values |-> <<>>, c |-> Unbound, line |-> <<>>]
    ELSE IF g.expect = "None"
    THEN ValueLine(g, pa.val, pb.val, TableResult(g.op, pa.val, pb.val))
    ELSE ErrorLine(g, pa.val, pb.val)

\* trans64.py: expected = a.sqrt(), a.ln(), decSin(a), ... of decTrig.py
TransCall(op, a) ==
    CASE op = "Sqrt" -> Lookup(DecimalSqrt, a)
      [] op = "Ln"   -> Lookup(DecimalLn, a)
      [] op = "Sin"  -> decTrig_decSin(a)
      [] op = "Cos"  -> decTrig_decCos(a)
      [] op = "Tan"  -> decTrig_decTan(a)
      [] op = "Asin" -> decAsin(a)
      [] op = "Acos" -> decAcos(a)

\* Skips with >= for > in the test of asin and acos
SkipsBoundary(op, a) ==
    \/ op = "Ln" /\ DecLE(a, Zero)
    \/ op \in {"Asin", "Acos"} /\ DecGE(copy_sign_1(a), D(<<1>>, <<>>))

\* trans64.py: `if a <= 0: continue` of ln, `if abs(a) > 1: continue` of
\* asin and acos
Skips(op, a) ==
    \/ op = "Ln" /\ DecLE(a, Zero)
    \/ op \in {"Asin", "Acos"} /\ DecGT(copy_sign_1(a), D(<<1>>, <<>>))

\* the line of a value row of trans64.py: a through the encoder of its
\* type, the expected value through to_ufix64 for sqrt and through
\* to_fix64 for the others; r is what the function returned or raised
TransLine(g, a, r) ==
    IF r.exc # "None"
    THEN [exc |-> r.exc, values |-> <<a>>, c |-> Unbound, line |-> <<>>]
    ELSE Line(<<a>>, r.val,
              << encode(g.utils, g.type, a),
                 encode(g.utils, IF g.op = "Sqrt" THEN "UFix64" ELSE "Fix64", r.val) >>)

\* one pass of a loop of trans64.py, pa being what parseInput64 returned
\* or raised: a skipped row appends no line; the row of a value loop
\* gives a and the expected value, the row of an error loop a alone
TransParsed(g, expect, pa) ==
    IF pa.exc # "None"
    THEN [exc |-> "ValueError", values |-> <<>>, c |-> Unbound, line |-> <<>>]
    ELSE IF expect # "None"
    THEN Line(<<pa.val>>, Unbound, << encode(g.utils, "Fix64", pa.val) >>)
    ELSE IF Skips(g.op, pa.val)
    THEN [exc |-> "None", values |-> <<pa.val>>, c |-> Unbound, line |-> <<>>]
    ELSE TransLine(g, pa.val, TransCall(g.op, pa.val))

TransRow(g, row) == TransParsed(g, row[1], parseInput64(row[2]))

Row(g, row) ==
    IF g.script = "generators/trans64.py" THEN TransRow(g, row)
    ELSE ParsedRow(g, parse(g.type, row[1]), parse(g.type, row[2]))

(* ------------------------------------------------------------------ *)
(* Operands                                                            *)
(* ------------------------------------------------------------------ *)

ProbesUFix64 == <<
    D(<<0>>, <<>>),                                                          \* 0
    D(<<0>>, <<0000, 0001>>),                                                \* 0.00000001
    D(<<0>>, <<0000, 9000>>),                                                \* 0.00009
    D(<<0>>, <<0001>>),                                                      \* 0.0001
    D(<<0>>, <<7000>>),                                                      \* 0.7
    D(<<1>>, <<>>),                                                          \* 1
    D(<<2>>, <<>>),                                                          \* 2
    D(<<42, 9496>>, <<7295, 9998>>),                                         \* 429496.72959998
    D(<<42, 9496>>, <<7296>>),                                               \* 429496.7296
    D(<<42, 9496>>, <<7296, 0002>>),                                         \* 429496.72960002
    D(<<922, 3372, 0368>>, <<5477, 5807>>),                                  \* 92233720368.54775807
    D(<<922, 3372, 0368>>, <<5477, 5808>>),                                  \* 92233720368.54775808
    D(<<1291, 2720, 8515>>, <<9668, 6131>>),                                 \* 129127208515.96686131
    D(<<1844, 6744, 0737>>, <<0955, 1614>>),                                 \* 184467440737.09551614
    D(<<1844, 6744, 0737>>, <<0955, 1615>>),                                 \* 184467440737.09551615
    D(<<3>>, <<>>),                                                          \* 3
    D(<<0>>, <<5000>>),                                                      \* 0.5
    D(<<10>>, <<>>)                                                          \* 10
>>

ProbesFix64 == <<
    D(<<0>>, <<>>),                                                          \* 0
    D(<<0>>, <<0000, 0001>>),                                                \* 0.00000001
    D(<<0>>, <<0000, 9000>>),                                                \* 0.00009
    D(<<0>>, <<0001>>),                                                      \* 0.0001
    D(<<0>>, <<7000>>),                                                      \* 0.7
    D(<<1>>, <<>>),                                                          \* 1
    D(<<2>>, <<>>),                                                          \* 2
    D(<<30, 3700>>, <<0499, 9758>>),                                         \* 303700.04999758
    D(<<30, 3700>>, <<0499, 9760>>),                                         \* 303700.04999760
    D(<<30, 3700>>, <<0499, 9762>>),                                         \* 303700.04999762
    D(<<461, 1686, 0184>>, <<2738, 7903>>),                                  \* 46116860184.27387903
    D(<<461, 1686, 0184>>, <<2738, 7904>>),                                  \* 46116860184.27387904
    D(<<645, 6360, 4257>>, <<9834, 3066>>),                                  \* 64563604257.98343066
    D(<<922, 3372, 0368>>, <<5477, 5806>>),                                  \* 92233720368.54775806
    D(<<922, 3372, 0368>>, <<5477, 5807>>),                                  \* 92233720368.54775807
    N(<<0>>, <<0000, 0001>>),                                                \* -0.00000001
    N(<<0>>, <<0000, 9000>>),                                                \* -0.00009
    N(<<0>>, <<0001>>),                                                      \* -0.0001
    N(<<0>>, <<7000>>),                                                      \* -0.7
    N(<<1>>, <<>>),                                                          \* -1
    N(<<2>>, <<>>),                                                          \* -2
    N(<<30, 3700>>, <<0499, 9760>>),                                         \* -303700.04999760
    N(<<30, 3700>>, <<0499, 9762>>),                                         \* -303700.04999762
    N(<<461, 1686, 0184>>, <<2738, 7904>>),                                  \* -46116860184.27387904
    N(<<645, 6360, 4257>>, <<9834, 3066>>),                                  \* -64563604257.98343066
    N(<<922, 3372, 0368>>, <<5477, 5807>>),                                  \* -92233720368.54775807
    N(<<922, 3372, 0368>>, <<5477, 5808>>),                                  \* -92233720368.54775808
    D(<<3>>, <<>>),                                                          \* 3
    N(<<3>>, <<>>),                                                          \* -3
    D(<<0>>, <<5000>>)                                                       \* 0.5
>>

ProbesUFix128 == <<
    D(<<0>>, <<>>),                                                          \* 0
    D(<<0>>, <<0000, 0000, 0000, 0000, 0000, 0001>>),                        \* 1e-24
    D(<<0>>, <<0000, 0000, 0000, 5000>>),                                    \* 5e-13
    D(<<0>>, <<0000, 0000, 0000, 9000>>),                                    \* 9e-13
    D(<<0>>, <<0000, 0000, 0001>>),                                          \* 1e-12
    D(<<0>>, <<1000>>),                                                      \* 1e-1
    D(<<0>>, <<7000>>),                                                      \* 0.7
    D(<<1>>, <<>>),                                                          \* 1
    D(<<2>>, <<>>),                                                          \* 2
    D(<<1844, 6744>>, <<0737, 0955, 1615, 9999, 9999, 9999>>),               \* 18446744.073709551615999999999999
    D(<<1844, 6744>>, <<0737, 0955, 1616>>),                                 \* 18446744.073709551616
    D(<<1844, 6744>>, <<0737, 0955, 1616, 0000, 0000, 0001>>),               \* 18446744.073709551616000000000001
    D(<<170, 1411, 8346, 0469>>, <<2317, 3168, 7303, 7158, 8410, 5727>>),    \* 170141183460469.231731687303715884105727
    D(<<170, 1411, 8346, 0469>>, <<2317, 3168, 7303, 7158, 8410, 5728>>),    \* 170141183460469.231731687303715884105728
    D(<<340, 2823, 6692, 0938>>, <<4634, 6337, 4607, 4317, 6821, 1454>>),    \* 340282366920938.463463374607431768211454
    D(<<340, 2823, 6692, 0938>>, <<4634, 6337, 4607, 4317, 6821, 1455>>),    \* 340282366920938.463463374607431768211455
    D(<<3>>, <<>>),                                                          \* 3
    D(<<0>>, <<5000>>)                                                       \* 0.5
>>

ProbesFix128 == <<
    D(<<0>>, <<>>),                                                          \* 0
    D(<<0>>, <<0000, 0000, 0000, 0000, 0000, 0001>>),                        \* 1e-24
    D(<<0>>, <<0000, 0000, 0000, 5000>>),                                    \* 5e-13
    D(<<0>>, <<0000, 0000, 0000, 9000>>),                                    \* 9e-13
    D(<<0>>, <<0000, 0000, 0001>>),                                          \* 1e-12
    D(<<0>>, <<1000>>),                                                      \* 1e-1
    D(<<0>>, <<7000>>),                                                      \* 0.7
    D(<<1>>, <<>>),                                                          \* 1
    D(<<2>>, <<>>),                                                          \* 2
    D(<<1304, 3817>>, <<8253, 3278, 2212, 3495, 7180, 6251>>),               \* 13043817.825332782212349571806251
    D(<<1304, 3817>>, <<8253, 3278, 2212, 3495, 7180, 6253>>),               \* 13043817.825332782212349571806253
    D(<<1304, 3817>>, <<8253, 3278, 2212, 3495, 7180, 6255>>),               \* 13043817.825332782212349571806255
    D(<<85, 0705, 9173, 0234>>, <<6158, 6584, 3651, 8579, 4205, 2863>>),     \* 85070591730234.615865843651857942052863
    D(<<85, 0705, 9173, 0234>>, <<6158, 6584, 3651, 8579, 4205, 2864>>),     \* 85070591730234.615865843651857942052864
    D(<<170, 1411, 8346, 0469>>, <<2317, 3168, 7303, 7158, 8410, 5726>>),    \* 170141183460469.231731687303715884105726
    D(<<170, 1411, 8346, 0469>>, <<2317, 3168, 7303, 7158, 8410, 5727>>),    \* 170141183460469.231731687303715884105727
    N(<<0>>, <<0000, 0000, 0000, 0000, 0000, 0001>>),                        \* -1e-24
    N(<<0>>, <<0000, 0000, 0000, 9000>>),                                    \* -9e-13
    N(<<0>>, <<0000, 0000, 0001>>),                                          \* -1e-12
    N(<<0>>, <<1000>>),                                                      \* -1e-1
    N(<<0>>, <<7000>>),                                                      \* -0.7
    N(<<1>>, <<>>),                                                          \* -1
    N(<<2>>, <<>>),                                                          \* -2
    N(<<1304, 3817>>, <<8253, 3278, 2212, 3495, 7180, 6253>>),               \* -13043817.825332782212349571806253
    N(<<1304, 3817>>, <<8253, 3278, 2212, 3495, 7180, 6255>>),               \* -13043817.825332782212349571806255
    N(<<85, 0705, 9173, 0234>>, <<6158, 6584, 3651, 8579, 4205, 2864>>),     \* -85070591730234.615865843651857942052864
    N(<<170, 1411, 8346, 0469>>, <<2317, 3168, 7303, 7158, 8410, 5727>>),    \* -170141183460469.231731687303715884105727
    N(<<170, 1411, 8346, 0469>>, <<2317, 3168, 7303, 7158, 8410, 5728>>),    \* -170141183460469.231731687303715884105728
    N(<<3>>, <<>>),                                                          \* -3
    D(<<3>>, <<>>)                                                           \* 3
>>

\* operands of type UFix64 for the operations of one operand
UnaryUFix64 == <<
    D(<<0>>, <<>>),                                                          \* 0
    D(<<0>>, <<0000, 0001>>),                                                \* 0.00000001
    D(<<0>>, <<0001>>),                                                      \* 0.0001
    D(<<0>>, <<7000>>),                                                      \* 0.7
    D(<<1>>, <<>>),                                                          \* 1
    D(<<2>>, <<>>),                                                          \* 2
    D(<<1844, 6744, 0737>>, <<0955, 1615>>),                                 \* 184467440737.09551615
    D(<<922, 3372, 0368>>, <<5477, 5808>>),                                  \* 92233720368.54775808
    D(<<1>>, <<5707, 9632>>),                                                \* 1.57079632
    D(<<1>>, <<5707, 9633>>),                                                \* 1.57079633
    D(<<3>>, <<1415, 9265>>),                                                \* 3.14159265
    D(<<3>>, <<1415, 9266>>),                                                \* 3.14159266
    D(<<4>>, <<7123, 8898>>),                                                \* 4.71238898
    D(<<6>>, <<2831, 8530>>),                                                \* 6.28318530
    D(<<0>>, <<9999, 9999>>),                                                \* 0.99999999
    D(<<1>>, <<0000, 0001>>),                                                \* 1.00000001
    D(<<4>>, <<>>),                                                          \* 4
    D(<<2>>, <<7182, 8183>>),                                                \* 2.71828183
    D(<<25>>, <<9408, 1146>>),                                               \* 25.94081146
    D(<<0>>, <<2500>>)                                                       \* 0.25
>>

\* operands of type Fix64 for the operations of one operand
UnaryFix64 == <<
    D(<<0>>, <<>>),                                                          \* 0
    D(<<0>>, <<0000, 0001>>),                                                \* 0.00000001
    D(<<0>>, <<7000>>),                                                      \* 0.7
    D(<<1>>, <<>>),                                                          \* 1
    D(<<2>>, <<>>),                                                          \* 2
    D(<<922, 3372, 0368>>, <<5477, 5807>>),                                  \* 92233720368.54775807
    N(<<0>>, <<0000, 0001>>),                                                \* -0.00000001
    N(<<0>>, <<7000>>),                                                      \* -0.7
    N(<<1>>, <<>>),                                                          \* -1
    N(<<2>>, <<>>),                                                          \* -2
    N(<<922, 3372, 0368>>, <<5477, 5808>>),                                  \* -92233720368.54775808
    D(<<1>>, <<5707, 9632>>),                                                \* 1.57079632
    D(<<1>>, <<5707, 9633>>),                                                \* 1.57079633
    D(<<3>>, <<1415, 9265>>),                                                \* 3.14159265
    D(<<3>>, <<1415, 9266>>),                                                \* 3.14159266
    N(<<1>>, <<5707, 9633>>),                                                \* -1.57079633
    N(<<3>>, <<1415, 9265>>),                                                \* -3.14159265
    D(<<6>>, <<2831, 8531>>),                                                \* 6.28318531
    N(<<18>>, <<4200>>),                                                     \* -18.42
    N(<<18>>, <<5000>>),                                                     \* -18.5
    N(<<19>>, <<2000>>),                                                     \* -19.2
    D(<<25>>, <<9000>>),                                                     \* 25.9
    D(<<26>>, <<>>),                                                         \* 26
    D(<<89>>, <<>>),                                                         \* 89
    D(<<4>>, <<>>),                                                          \* 4
    N(<<4>>, <<>>),                                                          \* -4
    N(<<300, 0000>>, <<>>),                                                  \* -3000000
    D(<<461, 1686, 0184>>, <<2738, 7903>>),                                  \* 46116860184.27387903
    D(<<0>>, <<0001>>),                                                      \* 0.0001
    N(<<0>>, <<0001>>),                                                      \* -0.0001
    D(<<3>>, <<>>),                                                          \* 3
    N(<<3>>, <<>>)                                                           \* -3
>>

\* operands of type UFix128 for the operations of one operand
UnaryUFix128 == <<
    D(<<0>>, <<>>),                                                          \* 0
    D(<<0>>, <<0000, 0000, 0000, 0000, 0000, 0001>>),                        \* 1e-24
    D(<<0>>, <<0000, 0000, 0001>>),                                          \* 1e-12
    D(<<0>>, <<7000>>),                                                      \* 0.7
    D(<<1>>, <<>>),                                                          \* 1
    D(<<2>>, <<>>),                                                          \* 2
    D(<<340, 2823, 6692, 0938>>, <<4634, 6337, 4607, 4317, 6821, 1455>>),    \* 340282366920938.463463374607431768211455
    D(<<170, 1411, 8346, 0469>>, <<2317, 3168, 7303, 7158, 8410, 5728>>),    \* 170141183460469.231731687303715884105728
    D(<<1>>, <<5707, 9632, 6794, 8966, 1923, 1321>>),                        \* 1.570796326794896619231321
    D(<<1>>, <<5707, 9632, 6794, 8966, 1923, 1322>>),                        \* 1.570796326794896619231322
    D(<<3>>, <<1415, 9265, 3589, 7932, 3846, 2643>>),                        \* 3.141592653589793238462643
    D(<<3>>, <<1415, 9265, 3589, 7932, 3846, 2644>>),                        \* 3.141592653589793238462644
    D(<<4>>, <<7123, 8898, 0384, 6898, 5769, 3965>>),                        \* 4.712388980384689857693965
    D(<<6>>, <<2831, 8530, 7179, 5864, 7692, 5286>>),                        \* 6.283185307179586476925286
    D(<<0>>, <<9999, 9999, 9999, 9999, 9999, 9999>>),                        \* 0.999999999999999999999999
    D(<<1>>, <<0000, 0000, 0000, 0000, 0000, 0001>>),                        \* 1.000000000000000000000001
    D(<<4>>, <<>>),                                                          \* 4
    D(<<2>>, <<7182, 8182, 8459, 0452, 3536, 0287>>),                        \* 2.718281828459045235360287
    D(<<33>>, <<4600>>),                                                     \* 33.46
    D(<<0>>, <<2500>>)                                                       \* 0.25
>>

\* operands of type Fix128 for the operations of one operand
UnaryFix128 == <<
    D(<<0>>, <<>>),                                                          \* 0
    D(<<0>>, <<0000, 0000, 0000, 0000, 0000, 0001>>),                        \* 1e-24
    D(<<0>>, <<7000>>),                                                      \* 0.7
    D(<<1>>, <<>>),                                                          \* 1
    D(<<2>>, <<>>),                                                          \* 2
    D(<<170, 1411, 8346, 0469>>, <<2317, 3168, 7303, 7158, 8410, 5727>>),    \* 170141183460469.231731687303715884105727
    N(<<0>>, <<0000, 0000, 0000, 0000, 0000, 0001>>),                        \* -1e-24
    N(<<0>>, <<7000>>),                                                      \* -0.7
    N(<<1>>, <<>>),                                                          \* -1
    N(<<2>>, <<>>),                                                          \* -2
    N(<<170, 1411, 8346, 0469>>, <<2317, 3168, 7303, 7158, 8410, 5728>>),    \* -170141183460469.231731687303715884105728
    D(<<1>>, <<5707, 9632, 6794, 8966, 1923, 1321>>),                        \* 1.570796326794896619231321
    D(<<1>>, <<5707, 9632, 6794, 8966, 1923, 1322>>),                        \* 1.570796326794896619231322
    D(<<3>>, <<1415, 9265, 3589, 7932, 3846, 2643>>),                        \* 3.141592653589793238462643
    D(<<3>>, <<1415, 9265, 3589, 7932, 3846, 2644>>),                        \* 3.141592653589793238462644
    N(<<1>>, <<5707, 9632, 6794, 8966, 1923, 1322>>),                        \* -1.570796326794896619231322
    N(<<3>>, <<1415, 9265, 3589, 7932, 3846, 2643>>),                        \* -3.141592653589793238462643
    D(<<6>>, <<2831, 8530, 7179, 5864, 7692, 5287>>),                        \* 6.283185307179586476925287
    N(<<55>>, <<2600>>),                                                     \* -55.26
    N(<<55>>, <<5000>>),                                                     \* -55.5
    N(<<56>>, <<>>),                                                         \* -56
    D(<<33>>, <<4000>>),                                                     \* 33.4
    D(<<33>>, <<5000>>),                                                     \* 33.5
    D(<<89>>, <<>>),                                                         \* 89
    D(<<4>>, <<>>),                                                          \* 4
    N(<<4>>, <<>>),                                                          \* -4
    N(<<300, 0000>>, <<>>),                                                  \* -3000000
    D(<<85, 0705, 9173, 0234>>, <<6158, 6584, 3651, 8579, 4205, 2863>>),     \* 85070591730234.615865843651857942052863
    D(<<0>>, <<0000, 0000, 0001>>),                                          \* 1e-12
    N(<<0>>, <<0000, 0000, 0001>>),                                          \* -1e-12
    D(<<3>>, <<>>),                                                          \* 3
    N(<<3>>, <<>>)                                                           \* -3
>>

\* bases of type UFix64 for Pow
PowBasesUFix64 == <<
    D(<<0>>, <<>>),                                                          \* 0
    D(<<0>>, <<0010>>),                                                      \* 0.001
    D(<<0>>, <<5000>>),                                                      \* 0.5
    D(<<2>>, <<>>),                                                          \* 2
    D(<<1>>, <<>>),                                                          \* 1
    D(<<10>>, <<>>),                                                         \* 10
    D(<<1844, 6744, 0737>>, <<0955, 1615>>),                                 \* 184467440737.09551615
    D(<<0>>, <<7000>>)                                                       \* 0.7
>>

\* bases of type UFix128 for Pow
PowBasesUFix128 == <<
    D(<<0>>, <<>>),                                                          \* 0
    D(<<0>>, <<0010>>),                                                      \* 0.001
    D(<<0>>, <<5000>>),                                                      \* 0.5
    D(<<2>>, <<>>),                                                          \* 2
    D(<<1>>, <<>>),                                                          \* 1
    D(<<10>>, <<>>),                                                         \* 10
    D(<<340, 2823, 6692, 0938>>, <<4634, 6337, 4607, 4317, 6821, 1455>>),    \* 340282366920938.463463374607431768211455
    D(<<0>>, <<7000>>)                                                       \* 0.7
>>

\* exponents of type Fix64 for Pow
PowExponentsFix64 == <<
    D(<<0>>, <<>>),                                                          \* 0
    N(<<1>>, <<>>),                                                          \* -1
    D(<<1>>, <<>>),                                                          \* 1
    D(<<0>>, <<5000>>),                                                      \* 0.5
    N(<<0>>, <<5000>>),                                                      \* -0.5
    D(<<2>>, <<>>),                                                          \* 2
    D(<<8>>, <<>>),                                                          \* 8
    N(<<8>>, <<>>),                                                          \* -8
    D(<<15>>, <<>>),                                                         \* 15
    D(<<922, 3372, 0368>>, <<5477, 5807>>),                                  \* 92233720368.54775807
    N(<<922, 3372, 0368>>, <<5477, 5808>>),                                  \* -92233720368.54775808
    D(<<0>>, <<0000, 0001>>),                                                \* 0.00000001
    D(<<2>>, <<7000>>)                                                       \* 2.7
>>

\* exponents of type Fix128 for Pow
PowExponentsFix128 == <<
    D(<<0>>, <<>>),                                                          \* 0
    N(<<1>>, <<>>),                                                          \* -1
    D(<<1>>, <<>>),                                                          \* 1
    D(<<0>>, <<5000>>),                                                      \* 0.5
    N(<<0>>, <<5000>>),                                                      \* -0.5
    D(<<2>>, <<>>),                                                          \* 2
    D(<<8>>, <<>>),                                                          \* 8
    N(<<8>>, <<>>),                                                          \* -8
    D(<<15>>, <<>>),                                                         \* 15
    D(<<170, 1411, 8346, 0469>>, <<2317, 3168, 7303, 7158, 8410, 5727>>),    \* 170141183460469.231731687303715884105727
    N(<<170, 1411, 8346, 0469>>, <<2317, 3168, 7303, 7158, 8410, 5728>>),    \* -170141183460469.231731687303715884105728
    D(<<0>>, <<0000, 0000, 0000, 0000, 0000, 0001>>),                        \* 1e-24
    D(<<8>>, <<0300>>)                                                       \* 8.03
>>

\* numbers of quanta for the encoders of utils.py
QuantaProbes == <<
    D(<<0>>, <<>>),                                                          \* 0
    D(<<0>>, <<5000>>),                                                      \* 0.5
    D(<<1>>, <<>>),                                                          \* 1
    D(<<0>>, <<4000>>),                                                      \* 0.4
    D(<<0>>, <<4999, 9999>>),                                                \* 0.49999999
    D(<<1>>, <<5000>>),                                                      \* 1.5
    D(<<2>>, <<5000>>),                                                      \* 2.5
    D(<<7>>, <<9000>>),                                                      \* 7.9
    N(<<0>>, <<5000>>),                                                      \* -0.5
    N(<<1>>, <<>>),                                                          \* -1
    N(<<1>>, <<5000>>),                                                      \* -1.5
    N(<<0>>, <<4000>>),                                                      \* -0.4
    D(<<1844, 6744, 0737, 0955, 1615>>, <<>>),                               \* 18446744073709551615
    D(<<922, 3372, 0368, 5477, 5807>>, <<5000>>),                            \* 9223372036854775807.5
    N(<<922, 3372, 0368, 5477, 5808>>, <<5000>>),                            \* -9223372036854775808.5
    D(<<1, 2345>>, <<5000>>),                                                \* 12345.5
    D(<<1844, 6744, 0737, 0955, 1616>>, <<>>),                               \* 18446744073709551616
    N(<<922, 3372, 0368, 5477, 5808>>, <<>>),                                \* -9223372036854775808
    N(<<922, 3372, 0368, 5477, 5809>>, <<>>),                                \* -9223372036854775809
    D(<<170, 1411, 8346, 0469, 2317, 3168, 7303, 7158, 8410, 5727>>, <<>>),  \* 170141183460469231731687303715884105727
    D(<<170, 1411, 8346, 0469, 2317, 3168, 7303, 7158, 8410, 5728>>, <<>>),  \* 170141183460469231731687303715884105728
    N(<<170, 1411, 8346, 0469, 2317, 3168, 7303, 7158, 8410, 5728>>, <<>>),  \* -170141183460469231731687303715884105728
    N(<<170, 1411, 8346, 0469, 2317, 3168, 7303, 7158, 8410, 5729>>, <<>>),  \* -170141183460469231731687303715884105729
    D(<<340, 2823, 6692, 0938, 4634, 6337, 4607, 4317, 6821, 1455>>, <<>>),  \* 340282366920938463463374607431768211455
    D(<<340, 2823, 6692, 0938, 4634, 6337, 4607, 4317, 6821, 1456>>, <<>>)   \* 340282366920938463463374607431768211456
>>

\* data128.py isUFix128Value: the value, rounded to 24 places, lies in
\* [0, MaxUFix128] and is zero or at least 1e-24
UFix128Test(testVal) ==
    /\ DecLE(Zero, testVal)
    /\ DecLE(testVal, D(<<340, 2823, 6692, 0938>>, <<4634, 6337, 4607, 4317, 6821, 1455>>))
    /\ (DecEQ(testVal, Zero) \/ DecGE(testVal, D(<<0>>, <<0000, 0000, 0000, 0000, 0000, 0001>>)))

isUFix128Value(val) == UFix128Test(quantize(val, 6, "ROUND_HALF_UP"))

\* data128.py isFix128Value
Fix128Test(testVal) ==
    /\ DecLE(N(<<170, 1411, 8346, 0469>>, <<2317, 3168, 7303, 7158, 8410, 5728>>), testVal)
    /\ DecLE(testVal, D(<<170, 1411, 8346, 0469>>, <<2317, 3168, 7303, 7158, 8410, 5727>>))
    /\ (DecEQ(testVal, Zero)
          \/ DecGE(copy_sign_1(testVal), D(<<0>>, <<0000, 0000, 0000, 0000, 0000, 0001>>)))

isFix128Value(val) == Fix128Test(quantize(val, 6, "ROUND_HALF_UP"))

\* how many of the probe operands of an unsigned / a signed type are used
NumUProbes == 16
NumSProbes == 28

Min2(i, j) == IF i <= j THEN i ELSE j

FirstOf(seq, n) == SubSeq(seq, 1, Min2(n, Len(seq)))

\* dataList | generate...Values | expandByIota... | filter...Values: the
\* operands of one argument type, in the order the generator yields them.
\* The 128-bit operands pass the filters of data128.py; the 64-bit ones
\* are values of the type, on its 1e-8 grid.
ArgsUFix64  == FirstOf(ProbesUFix64, NumUProbes)
ArgsFix64   == FirstOf(ProbesFix64, NumSProbes)
ArgsUFix128 == SelectSeq(FirstOf(ProbesUFix128, NumUProbes), isUFix128Value)
ArgsFix128  == SelectSeq(FirstOf(ProbesFix128, NumSProbes), isFix128Value)

\* how many of the operands of a type are used for the operation of three
\* operands
NumFmdProbes == 6

\* dataList | generate...Values | expandByIota... | filter...Values for an
\* argument of type argType of an operation of two operands
argGenerator(argType) ==
    CASE argType = "UFix64"  -> ArgsUFix64
      [] argType = "Fix64"   -> ArgsFix64
      [] argType = "UFix128" -> ArgsUFix128
      [] argType = "Fix128"  -> ArgsFix128

\* the same for an operation of one operand
argGenerator1(argType) ==
    CASE argType = "UFix64"  -> UnaryUFix64
      [] argType = "Fix64"   -> UnaryFix64
      [] argType = "UFix128" -> SelectSeq(UnaryUFix128, isUFix128Value)
      [] argType = "Fix128"  -> SelectSeq(UnaryFix128, isFix128Value)

\* argGenerators: one list of operands for each argument.  The operands
\* of Pow are a selection of their own, those of FMD the first of the
\* operands of the type.
argGenerators(outputType, operation) ==
    CASE operation = "Pow" /\ outputType = "UFix64"  -> << PowBasesUFix64, PowExponentsFix64 >>
      [] operation = "Pow" /\ outputType = "UFix128" ->
            << SelectSeq(PowBasesUFix128, isUFix128Value), SelectSeq(PowExponentsFix128, isFix128Value) >>
      [] operation = "FMD" ->
            [i \in 1..3 |-> FirstOf(argGenerator(outputType), NumFmdProbes)]
      [] argCount(operation) = 1 ->
            << argGenerator1(argTypes(outputType, operation)[1]) >>
      [] OTHER -> [i \in 1..2 |-> argGenerator(outputType)]

\* the length of itertools.product(*gens)
ProductSize(gens) ==
    IF Len(gens) = 1 THEN Len(gens[1])
    ELSE IF Len(gens) = 2 THEN Len(gens[1]) * Len(gens[2])
    ELSE Len(gens[1]) * Len(gens[2]) * Len(gens[3])

\* the k-th tuple (from 0) of itertools.product(*gens): the last
\* argument varies fastest
ProductTuple(gens, k) ==
    IF Len(gens) = 1 THEN << gens[1][k + 1] >>
    ELSE IF Len(gens) = 2
    THEN << gens[1][(k \div Len(gens[2])) + 1], gens[2][(k % Len(gens[2])) + 1] >>
    ELSE << gens[1][(k \div (Len(gens[2]) * Len(gens[3]))) + 1],
            gens[2][((k \div Len(gens[3])) % Len(gens[2])) + 1],
            gens[3][(k % Len(gens[3])) + 1] >>

(* ------------------------------------------------------------------ *)
(* generators/genConstants.py                                          *)
(* ------------------------------------------------------------------ *)

\* Fix64Scale, Fix128Scale and the smallest representable values
Fix64Scale    == D(<<1, 0000, 0000>>, <<>>)
Fix128Scale   == D(<<1, 0000, 0000, 0000, 0000, 0000, 0000>>, <<>>)
fix64Epsilon  == D(<<0>>, <<0000, 0001>>)
fix128Epsilon == D(<<0>>, <<0000, 0000, 0000, 0000, 0000, 0001>>)

\* Decimal(0xffffffffffffffff) / Fix64Scale and
\* Decimal(0xffffffffffffffffffffffffffffffff) / Fix128Scale: the
\* quotients are exact (20 and 39 digits)
UFix64Max  == quantize(DecDiv(Ones64, Fix64Scale), 2, "ROUND_DOWN")
UFix128Max == quantize(DecDiv(Ones128, Fix128Scale), 6, "ROUND_DOWN")

\* the largest input to exp() that does not overflow
maxLn64  == quantize(Lookup(DecimalLn, UFix64Max).val, 2, "ROUND_DOWN")
maxLn128 == quantize(Lookup(DecimalLn, UFix128Max).val, 6, "ROUND_DOWN")

\* the smallest input to exp() that does not underflow
minLn64  == quantize(Lookup(DecimalLn, DecDiv(fix64Epsilon, Two)).val, 2, "ROUND_DOWN")
minLn128 == quantize(Lookup(DecimalLn, DecDiv(fix128Epsilon, Two)).val, 6, "ROUND_DOWN")

\* pi = Decimal(str(mp.pi)) and twoPi = Decimal(str(mp.pi * 2)): 100
\* significant digits
pi ==
    D(<<3>>,
      <<1415, 9265, 3589, 7932, 3846, 2643, 3832, 7950, 2884, 1971, 6939, 9375, 1058, 2097, 4944, 5923, 0781, 6406, 2862, 0899, 8628, 0348, 2534, 2117, 0680>>)
twoPi ==
    D(<<6>>,
      <<2831, 8530, 7179, 5864, 7692, 5286, 7665, 5900, 5768, 3943, 3879, 8750, 2116, 4194, 9889, 1846, 1563, 2812, 5724, 1799, 7256, 0696, 5068, 4234, 1360>>)

\* 5**24, 0x8000000000000000, 2**64, 2**88, 2**191, 2**192
FiveTo24 == D(<<5, 9604, 6447, 7539, 0625>>, <<>>)
TwoTo63  == D(<<922, 3372, 0368, 5477, 5808>>, <<>>)
TwoTo64  == D(<<1844, 6744, 0737, 0955, 1616>>, <<>>)
TwoTo88  == D(<<309, 4850, 0982, 1345, 0687, 2478, 1056>>, <<>>)
TwoTo191 == D(<<31, 3855, 0867, 6933, 4038, 1917, 8947, 1160, 3833, 2080, 5117, 7722, 2320, 1725, 6448>>, <<>>)
TwoTo192 == D(<<62, 7710, 1735, 3866, 8076, 3835, 7894, 2320, 7666, 4161, 0235, 5444, 4640, 3451, 2896>>, <<>>)

\* quantize(Decimal('1'), rounding=ROUND_UP): away from zero
RoundedUp(neg, qr) ==
    [neg |-> neg, num |-> IF qr[2] # <<>> THEN MagAdd(qr[1], ONE) ELSE qr[1], den |-> ONE, fl |-> 0]
quantizeUp(x) == RoundedUp(x.neg, QuotRem(x, 0))

\* int() of a Decimal below 10^4, as an integer of the model
SmallInt(x) == IF x.num = <<>> THEN 0 ELSE x.num[1]

\* The smallest factor that results in a value larger than 2^63, and the
\* largest that still fits in 64 bits.  The quotients (24.6..., 49.2...)
\* are far from an integer: the exact quotient rounds as the one of 100
\* digits does.
minFactor == SmallInt(quantizeUp(DecDiv(DecDiv(TwoTo63, FiveTo24), twoPi)))
maxFactor == SmallInt(quantize(DecDiv(DecDiv(Ones64, FiveTo24), twoPi), 0, "ROUND_DOWN"))

\* the body of the search loop for the factor i
currentMultiplier(i) == DecMul(D(<<i>>, <<>>), FiveTo24)
scaled2Pi(i)    == RoundPrec(DecMul(twoPi, currentMultiplier(i)), Prec)
truncated2Pi(i) == quantize(scaled2Pi(i), 0, "ROUND_DOWN")

\* x / y in the decimal context: the quotient to prec significant
\* digits, ROUND_HALF_EVEN.  The quotient of the magnitudes is taken with
\* at least prec + 1 digits and one more limb that records whether a
\* remainder is left, and then rounded as every result of the context is.
DivDigits(x, y, prec) == 4 * ((Max2(0, prec + 1 + MagDigits(y.num) - MagDigits(x.num)) + 3) \div 4)
Sticky(qr) == IF qr[2] # <<>> THEN <<1>> \o qr[1] ELSE ShiftUp(qr[1], 1)
DivScaled(x, y, s, prec) ==
    RoundPrec([neg |-> x.neg # y.neg,
               num |-> Sticky(MagDivMod(ScaleUp(x.num, s), y.num)),
               den |-> ONE,
               fl  |-> x.fl - y.fl + (s \div 4) + 1], prec)
DivPrec(x, y, prec) ==
    IF x.num = <<>> THEN x ELSE DivScaled(x, y, DivDigits(x, y, prec), prec)

\* estTwoPi = truncated2Pi / currentMultiplier; err = twoPi - estTwoPi
estTwoPi(i) == DivPrec(truncated2Pi(i), currentMultiplier(i), Prec)
twoPiErr(i) == RoundPrec(DecSub(twoPi, estTwoPi(i)), Prec)


\* twoPiMultiple = (twoPi * twoPiFactor * 5**24).quantize(Decimal('1'), rounding=ROUND_HALF_UP)
\* (twoPiMultipleUp: the same product by ROUND_UP)
twoPiProduct(bestFactor) ==
    RoundPrec(DecMul(RoundPrec(DecMul(twoPi, D(<<bestFactor>>, <<>>)), Prec), FiveTo24), Prec)
twoPiMultipleUp(bestFactor) == quantizeUp(twoPiProduct(bestFactor))
twoPiMultiple(bestFactor) == quantize(twoPiProduct(bestFactor), 0, "ROUND_HALF_UP")

\* intValue >> 64 * j & 0xffffffffffffffff for a Python int of either
\* sign.  >> is the floor of the quotient by 2^(64 j): for a negative
\* intValue the quotient of the magnitude, one more if there is a
\* remainder, negated.
FloorOf(neg, qr) ==
    [neg |-> neg /\ (qr[1] # <<>> \/ qr[2] # <<>>),
     num |-> IF neg /\ qr[2] # <<>> THEN MagAdd(qr[1], ONE) ELSE qr[1],
     den |-> ONE, fl |-> 0]
ShiftRight(intValue, j) ==
    IF j = 0 THEN intValue
    ELSE FloorOf(intValue.neg,
                 MagDivMod(intValue.num, IF j = 1 THEN TwoTo64.num ELSE MagMul(TwoTo64.num, TwoTo64.num)))
Word64(intValue, j) == BitAnd(ShiftRight(intValue, j), Ones64)

\* hexString192(intValue): the words Hi, Mid, Lo
hexString192(intValue) == << Word64(intValue, 2), Word64(intValue, 1), Word64(intValue, 0) >>

\* go_const: the scaled value of each type
GoTypes == {"int64", "uint64", "raw64", "Fix64", "UFix64", "Fix128", "UFix128", "raw128", "fix192"}
bitLength(typ) ==
    CASE typ \in {"int64", "uint64", "raw64", "Fix64", "UFix64"} -> 64
      [] typ \in {"Fix128", "UFix128", "raw128"} -> 128
      [] OTHER -> 192
scaledValue(value, typ) ==
    CASE typ \in {"Fix64", "UFix64"}   -> RoundPrec(DecMul(value, Fix64Scale), Prec)
      [] typ \in {"Fix128", "UFix128"} -> RoundPrec(DecMul(value, Fix128Scale), Prec)
      [] typ = "fix192" -> RoundPrec(DecMul(RoundPrec(DecMul(value, Fix128Scale), Prec), TwoTo64), Prec)
      [] OTHER -> value

\* the second match of go_const: the test of the range and the words
GoWords(intValue, typ) ==
    CASE bitLength(typ) = 64 ->
            IF DecGE(intValue, TwoTo64) THEN Raise("ValueError")
            ELSE Return([decl |-> "const", typ |-> typ, words |-> << Word64(intValue, 0) >>])
      [] bitLength(typ) = 128 ->
            IF DecGE(intValue, TwoPow128) THEN Raise("ValueError")
            ELSE Return([decl |-> "var", typ |-> typ,
                         words |-> << Word64(intValue, 1), Word64(intValue, 0) >>])
      [] OTHER ->
            IF DecGE(intValue, TwoTo192) THEN Raise("ValueError")
            ELSE Return([decl |-> "var", typ |-> typ, words |-> hexString192(intValue)])

\* go_const(name, value, typ, rounding): the constant written, or the
\* ValueError raised
go_const(value, typ, rounding) ==
    IF typ \notin GoTypes THEN Raise("ValueError")
    ELSE GoWords(int(quantize(scaledValue(value, typ), 0, rounding)), typ)

\* Fix128Max, Fix128Min and ln2
Fix128Max == DivPrec(D(<<170, 1411, 8346, 0469, 2317, 3168, 7303, 7158, 8410, 5727>>, <<>>), Fix128Scale, Prec)
Fix128Min == DivPrec(N(<<170, 1411, 8346, 0469, 2317, 3168, 7303, 7158, 8410, 5728>>, <<>>), Fix128Scale, Prec)
ln2 == Lookup(DecimalLn, Two).val

\* twoPiResidual: the 64 bits below the fix192 value of 2 pi
twoPiResidual ==
    BitAnd(int(quantize(RoundPrec(DecMul(RoundPrec(DecMul(twoPi, TenPow24), Prec), TwoPow128), Prec),
                        0, "ROUND_HALF_UP")),
           Ones64)

\* x // y of two non-negative values
FloorDiv(x, y) == int(DecDiv(x, y))

\* the sanity check of the magic quotient for the largest fix192
fix192Max == DivPrec(DivPrec(DecSub(TwoTo191, D(<<1>>, <<>>)), TenPow24, Prec), TwoTo64, Prec)
correctQuotient == FloorDiv(fix192Max, twoPi)
magicQuotient(multiple, bestFactor) ==
    FloorDiv(DecMul(FloorDiv(DecSub(TwoTo191, D(<<1>>, <<>>)), multiple), D(<<bestFactor>>, <<>>)), TwoTo88)

\* the rows of expIntPowers: range(int(minLn128) - 1, int(maxLn128) + 1)
SignedInt(x) == IF x.neg THEN 0 - SmallInt(x) ELSE SmallInt(x)
\* (intOfMinLn128: int(minLn128) alone)
intOfMinLn128 == SignedInt(int(minLn128))
smallestExpIntPower == SignedInt(int(minLn128)) - 1
lastExpIntPower == SignedInt(int(maxLn128))
DecOfInt(i) == IF i < 0 THEN N(<<0 - i>>, <<>>) ELSE D(<<i>>, <<>>)
expValue(intPower) == Lookup(DecimalExp, DecOfInt(intPower)).val
expIntValue(intPower) ==
    int(quantize(RoundPrec(DecMul(RoundPrec(DecMul(expValue(intPower), TenPow24), Prec), TwoTo64), Prec),
                 0, "ROUND_HALF_UP"))

(* chebyFitWithOverflowCheck.  mpmath works in binary floating point of  *)
(* 100 decimal places; the values below are the exact rationals, which   *)
(* the floating-point values follow to a relative 10^-100.               *)

\* x + y and x - y of two rationals
OverDen(s, den) == [s EXCEPT !.den = den]
RatAdd(x, y) ==
    OverDen(DecAdd([x EXCEPT !.num = MagMul(x.num, y.den), !.den = ONE],
                   [y EXCEPT !.num = MagMul(y.num, x.den), !.den = ONE]),
            MagMul(x.den, y.den))
RatSub(x, y) == RatAdd(x, DecNeg(y))

\* x ** n
RECURSIVE DecPow(_, _)
DecPow(x, n) == IF n = 0 THEN D(<<1>>, <<>>) ELSE DecMul(x, DecPow(x, n - 1))

scaleIn  == DecMul(TenPow24, TwoTo64)
scaleOut == DecMul(TenPow24, TwoTo64)
mulScale == D(<<4460, 1490, 3970, 6124, 6283, 0714, 3654, 5296, 7230, 1196, 0832>>, <<>>)
upperBound == DecSub(TwoTo191, D(<<1>>, <<>>))
lowerBound == DecNeg(TwoTo191)

\* func is a polynomial, given by its coefficients, highest degree first
RECURSIVE polyvalFrom(_, _, _, _)
polyvalFrom(coeffs, x, i, acc) ==
    IF i > Len(coeffs) THEN acc
    ELSE polyvalFrom(coeffs, x, i + 1, RatAdd(DecMul(acc, x), coeffs[i]))
polyval(coeffs, x) == polyvalFrom(coeffs, x, 1, Zero)

\* wrappedFunc = lambda x: func(x/scaleIn) * scaleOut, as a polynomial
wrappedFunc(f) ==
    [i \in 1..Len(f) |-> DecDiv(DecMul(f[i], scaleOut), DecPow(scaleIn, Len(f) - i))]

\* mp.chebyfit(wrappedFunc, scaledBounds, degree, error=True) for a
\* polynomial of fewer than degree coefficients: the interpolation in
\* degree Chebyshev nodes is the polynomial itself, the error none
chebyfit(f, degree) ==
    [coeffs |-> [i \in 1..degree |-> IF i <= degree - Len(f) THEN Zero
                                     ELSE wrappedFunc(f)[i - (degree - Len(f))]],
     err    |-> Zero]

\* coeffs = [x * (mulScale ** i) for i, x in zip(degrees, coeffs)]
ScaledCoeffs(coeffs) ==
    [i \in 1..Len(coeffs) |-> DecMul(coeffs[i], DecPow(mulScale, Len(coeffs) - i))]

OutOfRange(v) == DecGT(v, upperBound) \/ DecLT(v, lowerBound)

\* the loop over the coefficients: the two accumulators after the pass
\* of coeffs[i], or the ValueError of one of its five tests
RECURSIVE EndpointCheck(_, _, _, _, _, _)
EndpointProducts(coeffs, i, prodMin, prodMax, minX, maxX) ==
    IF \/ OutOfRange(prodMin) \/ OutOfRange(RatAdd(prodMin, coeffs[i]))
       \/ OutOfRange(prodMax) \/ OutOfRange(RatAdd(prodMax, coeffs[i]))
    THEN Raise("ValueError")
    ELSE EndpointCheck(coeffs, i + 1, RatAdd(prodMin, coeffs[i]), RatAdd(prodMax, coeffs[i]), minX, maxX)
EndpointCheck(coeffs, i, minAccum, maxAccum, minX, maxX) ==
    IF i > Len(coeffs) THEN Return(<<minAccum, maxAccum>>)
    ELSE IF OutOfRange(coeffs[i]) THEN Raise("ValueError")
    ELSE EndpointProducts(coeffs, i, DecDiv(DecMul(minAccum, minX), mulScale),
                          DecDiv(DecMul(maxAccum, maxX), mulScale), minX, maxX)

\* abs(realResult - accum) > 1
OffByMoreThanOne(realResult, accum) == DecGT(copy_sign_1(RatSub(realResult, accum)), D(<<1>>, <<>>))

\* the sanity check of the two ends and the return
SanityChecked(f, bounds, coeffs, accums) ==
    IF accums.exc # "None" THEN Raise("ValueError")
    ELSE IF OffByMoreThanOne(DecMul(polyval(f, bounds[1]), scaleOut), accums.val[1]) THEN Raise("ValueError")
    ELSE IF OffByMoreThanOne(DecMul(polyval(f, bounds[2]), scaleOut), accums.val[2]) THEN Raise("ValueError")
    ELSE Return(coeffs)
CheckedCoeffs(f, bounds, coeffs) ==
    SanityChecked(f, bounds, coeffs,
                  EndpointCheck(coeffs, 1, Zero, Zero, DecMul(bounds[1], scaleIn), DecMul(bounds[2], scaleIn)))
chebyFitWithOverflowCheck(f, bounds, degree) ==
    IF DecGT(chebyfit(f, degree).err, D(<<1>>, <<>>)) THEN Raise("ValueError")
    ELSE CheckedCoeffs(f, bounds, ScaledCoeffs(chebyfit(f, degree).coeffs))

\* the polynomials and ranges the fit is run with
ChebyProbes == <<
    [func |-> << N(<<1000, 0000, 0000>>, <<>>), D(<<10, 0000, 0000, 0000>>, <<>>), Zero >>,
     bounds |-> << Zero, D(<<100>>, <<>>) >>, degree |-> 3],
    [func |-> << D(<<1>>, <<>>), Zero >>,
     bounds |-> << Zero, D(<<1>>, <<>>) >>, degree |-> 3],
    [func |-> << D(<<200, 0000, 0000, 0000>>, <<>>) >>,
     bounds |-> << Zero, D(<<1>>, <<>>) >>, degree |-> 2],
    [func |-> << D(<<1, 0000, 0000, 0000>>, <<>>), Zero >>,
     bounds |-> << Zero, D(<<1000>>, <<>>) >>, degree |-> 2],
    [func |-> << D(<<1>>, <<>>), Zero, Zero >>,
     bounds |-> << Zero, D(<<2>>, <<>>) >>, degree |-> 3],
    [func |-> << N(<<1>>, <<>>), D(<<0>>, <<5000>>) >>,
     bounds |-> << N(<<1>>, <<>>), D(<<1>>, <<>>) >>, degree |-> 2]
>>
NumChebyProbes == 6
ChebyFuncs == FirstOf(ChebyProbes, NumChebyProbes)

(* ------------------------------------------------------------------ *)
(* generators/data128.py: generateFix128Values                         *)
(* ------------------------------------------------------------------ *)

\* A raw value is a pair (rawD, rawV).  rawV is written as the regular
\* expression of the generator reads it: a Decimal literal for a string
\* of digits, S("Max") for "Max", SM("Max", m) for "Max - m", SP("HalfMax", m)
\* for "HalfMax + m".  A yielded description f"{key}Fix128 {op} {mod}" is
\* the record of its three parts.
Described(key, op, mod) == [key |-> key, op |-> op, mod |-> mod]

\* Decimal(2**127 - 1) / Decimal(10**24), -Decimal(2**127) / Decimal(10**24),
\* Decimal(2**126 - 1) / Decimal(10**24), -Decimal(2**126) / Decimal(10**24)
MaxFix128Val     == D(<<170, 1411, 8346, 0469>>, <<2317, 3168, 7303, 7158, 8410, 5727>>)
MinFix128Val     == N(<<170, 1411, 8346, 0469>>, <<2317, 3168, 7303, 7158, 8410, 5728>>)
HalfMaxFix128Val == D(<<85, 0705, 9173, 0234>>, <<6158, 6584, 3651, 8579, 4205, 2863>>)
HalfMinFix128Val == N(<<85, 0705, 9173, 0234>>, <<6158, 6584, 3651, 8579, 4205, 2864>>)

\* baseVal of a symbolic value with a modifier: the same quotient for
\* both keys
baseVal(key) ==
    IF key = "Max" THEN D(<<170, 1411, 8346, 0469>>, <<2317, 3168, 7303, 7158, 8410, 5727>>)
    ELSE D(<<170, 1411, 8346, 0469>>, <<2317, 3168, 7303, 7158, 8410, 5727>>)

\* val = baseVal + mod or baseVal - mod
Modified(base, op, mod) == IF op = "+" THEN DecAdd(base, mod) ELSE DecSub(base, mod)

\* the operator of the negative-side value
Flipped(op) == IF op = "+" THEN "-" ELSE "+"

\* key.replace("Max", "Min")
MinKey(key) == IF key = "Max" THEN "Min" ELSE "HalfMin"

\* the two values yielded for "<key> <op> <mod>": first the positive one,
\* then the one described as the negative one, made of
\* baseVal + Decimal('1e-24') and the flipped operator
ModifiedPair(key, op, mod) ==
    << << Described(key \o "Fix128", op, mod), Modified(baseVal(key), op, mod) >>,
       << Described(MinKey(key) \o "Fix128", Flipped(op), mod),
          Modified(DecAdd(baseVal(key), D(<<0>>, <<0000, 0000, 0000, 0000, 0000, 0001>>)),
                   Flipped(op), mod) >> >>

\* what generateFix128Values yields for one raw value, or the exception
\* it raises
generateFix128Values(rawD, rawV) ==
    IF "key" \notin DOMAIN rawV
    THEN IF rawD = "0"
         THEN Return(<< << Described("0", "", Zero), Zero >> >>)
         ELSE Return(<< << Described(rawD, "", Zero), rawV >>,
                        << Described("-" \o rawD, "", Zero), DecNeg(rawV) >> >>)
    ELSE IF rawV = S("Max")
    THEN Return(<< << Described("MaxFix128", "", Zero), MaxFix128Val >>,
                   << Described("MinFix128", "", Zero), MinFix128Val >> >>)
    ELSE IF rawV = S("HalfMax")
    THEN Return(<< << Described("HalfMaxFix128", "", Zero), HalfMaxFix128Val >>,
                   << Described("HalfMinFix128", "", Zero), HalfMinFix128Val >> >>)
    ELSE IF rawV.op \in {"+", "-"} /\ rawV.key \in {"Max", "HalfMax"}
    THEN Return(ModifiedPair(rawV.key, rawV.op, rawV.mod))
    ELSE Raise("ValueError")

\* the raw values generateFix128Values is called with
RawValues128 == <<
    << "0", Zero >>,
    << "1.5", D(<<1>>, <<5000>>) >>,
    << "sqrt(MaxUFix128)", D(<<1844, 6744>>, <<0737, 0955, 1616>>) >>,
    << "", S("Max") >>,
    << "", S("HalfMax") >>,
    << "", SM("Max", D(<<1>>, <<>>)) >>,
    << "", SP("Max", D(<<1>>, <<>>)) >>,
    << "", SM("Max", D(<<0>>, <<0000, 0000, 0000, 0000, 0000, 0001>>)) >>,
    << "", SM("HalfMax", D(<<1>>, <<>>)) >>,
    << "", SP("HalfMax", D(<<1>>, <<>>)) >>,
    << "", SM("HalfMax", D(<<0>>, <<0000, 0000, 0000, 0000, 0000, 0001>>)) >>,
    << "", SP("HalfMax", D(<<0>>, <<0000, 0000, 0000, 0000, 0000, 0001>>)) >>,
    << "", SP("MaxFix128", D(<<1>>, <<>>)) >>,
    << "", S("Min") >>
>>

(* ------------------------------------------------------------------ *)
(* State                                                               *)
(* ------------------------------------------------------------------ *)

VARIABLES
    pc,          \* "idle", "genTestData", "utils", "decClamp", "data128", "go_const", "chebyFit",
                 \* the place in genConstants.py, or the table script that is running
    func,        \* table scripts: the generate_* function running (index in GenerateFunctions)
    outputType,  \* genTestData: sys.argv[1]
    operation,   \* genTestData: sys.argv[2]
    values,      \* the operands of the row made last (genTestData: values; tables: a, b)
    result,      \* genTestData: the variable result; tables: the variable c
    err,         \* genTestData: the variable err ("None" for None); tables and
                 \* utils: the exception raised ("None" while there is none)
    printed,     \* the row made last: genTestData: hex values, hex result, err;
                 \* tables: the raw words a, b (and c); utils: what each encoder returned
    k            \* how many passes the running loop has made

vars == <<pc, func, outputType, operation, values, result, err, printed, k>>

Init ==
    /\ pc = "idle" /\ func = 0
    /\ outputType = "" /\ operation = ""
    /\ values = <<>> /\ result = Unbound /\ err = "None" /\ printed = <<>>
    /\ k = 0

\* python genTestData.py <type> <operation>, up to the loop (for a type
\* the operation does not accept the script exits at once)
StartGenTestData ==
    /\ pc = "idle"
    /\ \E t \in OutputTypes, op \in Operations :
          /\ ~Exits(t, op)
          /\ outputType' = t
          /\ operation' = op
    /\ pc' = "genTestData"
    /\ values' = <<>> /\ result' = Unbound /\ err' = "None" /\ printed' = <<>>
    /\ k' = 0
    /\ UNCHANGED func

\* print(...): the operands and the result through formatFunc, and err
PrintRow(tuple, s) ==
    /\ values' = tuple
    /\ result' = s.result
    /\ err' = s.err
    /\ printed' = [i \in 1..(Len(tuple) + 2) |->
                      IF i = Len(tuple) + 2 THEN s.err
                      ELSE formatFunc(outputType, Append(tuple, s.result)[i])]

\* the next tuple of the product, if there is one
NextTuple(gens) ==
    /\ k < ProductSize(gens)
    /\ PrintRow(ProductTuple(gens, k), LoopBody(outputType, operation, ProductTuple(gens, k), result))

\* one pass of main's loop, printing one row
GenTestDataRow ==
    /\ pc = "genTestData"
    /\ NextTuple(argGenerators(outputType, operation))
    /\ k' = k + 1
    /\ UNCHANGED <<pc, func, outputType, operation>>

\* the product is exhausted
NoTuple(gens) == k = ProductSize(gens)

\* the loop is over and the script ends
GenTestDataExit ==
    /\ pc = "genTestData"
    /\ NoTuple(argGenerators(outputType, operation))
    /\ pc' = "idle"
    /\ outputType' = "" /\ operation' = ""
    /\ values' = <<>> /\ result' = Unbound /\ err' = "None" /\ printed' = <<>>
    /\ k' = 0
    /\ UNCHANGED func

\* how many generate_* functions there are, and the script of each
Scripts == [i \in 1..Len(GenerateFunctions) |-> GenerateFunctions[i].script]

\* a table script calls one of its generate_* functions (main() calls
\* them one after the other; each starts from nothing but its table)
CallGenerate ==
    /\ pc = "idle"
    /\ \E i \in 1..Len(Scripts) :
          /\ func' = i
          /\ pc' = Scripts[i]
    /\ values' = <<>> /\ result' = Unbound /\ err' = "None" /\ printed' = <<>>
    /\ k' = 0
    /\ UNCHANGED <<outputType, operation>>

\* lines.append(...), or the ValueError that parseInput or an encoder raised
AppendLine(r) ==
    /\ values' = r.values
    /\ result' = r.c
    /\ err' = r.exc
    /\ printed' = r.line

\* the next row of the table of g, if there is one
NextRow(g) ==
    /\ k < Len(g.table)
    /\ AppendLine(Row(g, g.table[k + 1]))

\* one pass of the loop of a generate_* function
GenerateRow ==
    /\ func # 0 /\ err = "None"
    /\ NextRow(GenerateFunctions[func])
    /\ k' = k + 1
    /\ UNCHANGED <<pc, func, outputType, operation>>

\* the table of g is exhausted
NoRow(g) == k = Len(g.table)

\* the loop is over: the function returns its lines
GenerateReturn ==
    /\ func # 0 /\ err = "None"
    /\ NoRow(GenerateFunctions[func])
    /\ pc' = "idle" /\ func' = 0
    /\ values' = <<>> /\ result' = Unbound /\ printed' = <<>>
    /\ k' = 0
    /\ UNCHANGED <<outputType, operation, err>>

\* a ValueError of parseInput or of an encoder ends the script
GenerateRaise ==
    /\ func # 0 /\ err = "ValueError"
    /\ pc' = "idle" /\ func' = 0
    /\ values' = <<>> /\ result' = Unbound /\ err' = "None" /\ printed' = <<>>
    /\ k' = 0
    /\ UNCHANGED <<outputType, operation>>

\* the numbers of quanta the encoders are called with
NumQuanta == 25
Quanta == FirstOf(QuantaProbes, NumQuanta)

\* x quanta as a value of a type with 4 * limbs places: x / BASE^limbs
AtScale(x, limbs) == [x EXCEPT !.fl = @ + limbs]

\* what the eight encoders of the two utils.py return for x * 1e-8
\* (v64) and x * 1e-24 (v128)
Encoded(v64, v128) ==
    [to_ufix64  |-> to_ufix64(v64),
     to_fix64   |-> to_fix64(v64),
     to_ufix128 |-> to_ufix128(v128),
     to_fix128  |-> to_fix128(v128),
     testgen_to_ufix64  |-> testgen_to_ufix64(v64),
     testgen_to_fix64   |-> testgen_to_fix64(v64),
     testgen_to_ufix128 |-> testgen_to_ufix128(v128),
     testgen_to_fix128  |-> testgen_to_fix128(v128)]

\* the encoders called with the same number of quanta x
CallEncoders ==
    /\ pc = "idle"
    /\ \E i \in 1..Len(Quanta) :
          /\ values' = <<Quanta[i]>>
          /\ printed' = Encoded(AtScale(Quanta[i], 2), AtScale(Quanta[i], 6))
    /\ pc' = "utils"
    /\ UNCHANGED <<func, outputType, operation, result, err, k>>

\* the calls have returned
EncodersReturn ==
    /\ pc = "utils"
    /\ pc' = "idle"
    /\ values' = <<>> /\ printed' = <<>>
    /\ UNCHANGED <<func, outputType, operation, result, err, k>>

\* the angles decClamp is called with: multiples of decPi and their
\* neighbours at the last place of the context, and fixed-point angles of
\* both signs up to the bounds of Fix64 and Fix128
ClampUlp == [neg |-> FALSE, num |-> <<10>>, den |-> ONE, fl |-> 25]
Times(x, n) == DecMul(x, D(<<n>>, <<>>))
ClampProbes == <<
    Zero,
    decPi,
    DecNeg(decPi),
    Times(decPi, 3),
    DecNeg(Times(decPi, 3)),
    Times(decPi, 2),
    DecNeg(Times(decPi, 2)),
    DecAdd(decPi, ClampUlp),
    DecSub(decPi, ClampUlp),
    DecNeg(DecAdd(decPi, ClampUlp)),
    DecNeg(DecSub(decPi, ClampUlp)),
    Times(decPi, 9999),
    DecNeg(Times(decPi, 9999)),
    D(<<1>>, <<>>),
    N(<<1>>, <<>>),
    D(<<3>>, <<1415, 9265>>),
    D(<<3>>, <<1415, 9266>>),
    N(<<3>>, <<1415, 9265>>),
    N(<<3>>, <<1415, 9266>>),
    D(<<6>>, <<2831, 8530>>),
    N(<<6>>, <<2831, 8531>>),
    D(<<0>>, <<0000, 0000, 0000, 0000, 0000, 0001>>),
    N(<<0>>, <<0000, 0000, 0000, 0000, 0000, 0001>>),
    maxVal("Fix64"),
    minVal("Fix64"),
    maxVal("Fix128"),
    minVal("Fix128"),
    D(<<100>>, <<>>),
    N(<<100>>, <<5000>>)
>>
NumClampProbes == 27
ClampAngles == FirstOf(ClampProbes, NumClampProbes)

\* decClamp(x) called with one of the angles
CallDecClamp ==
    /\ pc = "idle"
    /\ \E i \in 1..Len(ClampAngles) :
          /\ values' = <<ClampAngles[i]>>
          /\ result' = decClamp(ClampAngles[i])
    /\ pc' = "decClamp"
    /\ UNCHANGED <<func, outputType, operation, err, printed, k>>

\* the call has returned
DecClampReturn ==
    /\ pc = "decClamp"
    /\ pc' = "idle"
    /\ values' = <<>> /\ result' = Unbound
    /\ UNCHANGED <<func, outputType, operation, err, printed, k>>

\* generateFix128Values run over one raw value: what it yields, or the
\* exception it raises
CallGenerateFix128Values ==
    /\ pc = "idle"
    /\ \E i \in 1..Len(RawValues128) :
          /\ values' = << RawValues128[i][2] >>
          /\ printed' = generateFix128Values(RawValues128[i][1], RawValues128[i][2]).val
          /\ err' = generateFix128Values(RawValues128[i][1], RawValues128[i][2]).exc
    /\ pc' = "data128"
    /\ UNCHANGED <<func, outputType, operation, result, k>>

\* the generator is exhausted
GenerateFix128ValuesReturn ==
    /\ pc = "data128"
    /\ pc' = "idle"
    /\ values' = <<>> /\ printed' = <<>> /\ err' = "None"
    /\ UNCHANGED <<func, outputType, operation, result, k>>

\* go_const called with one of the values below: the bounds of the
\* types, their neighbours, values of the wrong sign
GoConstProbes == <<
    [value |-> D(<<922, 3372, 0368, 5477, 5807>>, <<>>), typ |-> "int64"],
    [value |-> D(<<922, 3372, 0368, 5477, 5808>>, <<>>), typ |-> "int64"],
    [value |-> N(<<922, 3372, 0368, 5477, 5808>>, <<>>), typ |-> "int64"],
    [value |-> N(<<922, 3372, 0368, 5477, 5809>>, <<>>), typ |-> "int64"],
    [value |-> D(<<1844, 6744, 0737, 0955, 1615>>, <<>>), typ |-> "uint64"],
    [value |-> D(<<1844, 6744, 0737, 0955, 1616>>, <<>>), typ |-> "uint64"],
    [value |-> N(<<1>>, <<>>), typ |-> "uint64"],
    [value |-> N(<<1>>, <<>>), typ |-> "raw64"],
    [value |-> N(<<1844, 6744, 0737, 0955, 1616>>, <<>>), typ |-> "raw64"],
    [value |-> D(<<922, 3372, 0368>>, <<5477, 5807>>), typ |-> "Fix64"],
    [value |-> D(<<922, 3372, 0368>>, <<5477, 5808>>), typ |-> "Fix64"],
    [value |-> N(<<922, 3372, 0368>>, <<5477, 5808>>), typ |-> "Fix64"],
    [value |-> N(<<922, 3372, 0368>>, <<5477, 5809>>), typ |-> "Fix64"],
    [value |-> D(<<1844, 6744, 0737>>, <<0955, 1615>>), typ |-> "UFix64"],
    [value |-> D(<<1844, 6744, 0737>>, <<0955, 1616>>), typ |-> "UFix64"],
    [value |-> N(<<0>>, <<0000, 0001>>), typ |-> "UFix64"],
    [value |-> D(<<1>>, <<5000>>), typ |-> "UFix64"],
    [value |-> N(<<1>>, <<5000>>), typ |-> "Fix64"],
    [value |-> D(<<170, 1411, 8346, 0469>>, <<2317, 3168, 7303, 7158, 8410, 5727>>), typ |-> "Fix128"],
    [value |-> D(<<170, 1411, 8346, 0469>>, <<2317, 3168, 7303, 7158, 8410, 5728>>), typ |-> "Fix128"],
    [value |-> N(<<170, 1411, 8346, 0469>>, <<2317, 3168, 7303, 7158, 8410, 5728>>), typ |-> "Fix128"],
    [value |-> N(<<170, 1411, 8346, 0469>>, <<2317, 3168, 7303, 7158, 8410, 5729>>), typ |-> "Fix128"],
    [value |-> D(<<340, 2823, 6692, 0938>>, <<4634, 6337, 4607, 4317, 6821, 1455>>), typ |-> "UFix128"],
    [value |-> D(<<340, 2823, 6692, 0938>>, <<4634, 6337, 4607, 4317, 6821, 1456>>), typ |-> "UFix128"],
    [value |-> N(<<1>>, <<>>), typ |-> "UFix128"],
    [value |-> N(<<1>>, <<>>), typ |-> "raw128"],
    [value |-> D(<<340, 2823, 6692, 0938, 4634, 6337, 4607, 4317, 6821, 1456>>, <<>>), typ |-> "raw128"],
    [value |-> D(<<170, 1411, 8346, 0469>>, <<2317, 3168, 7303, 7158, 8410, 5727>>), typ |-> "fix192"],
    [value |-> D(<<170, 1411, 8346, 0469>>, <<2317, 3168, 7303, 7158, 8410, 5728>>), typ |-> "fix192"],
    [value |-> N(<<170, 1411, 8346, 0469>>, <<2317, 3168, 7303, 7158, 8410, 5728>>), typ |-> "fix192"],
    [value |-> N(<<170, 1411, 8346, 0469>>, <<2317, 3168, 7303, 7158, 8410, 5729>>), typ |-> "fix192"],
    [value |-> D(<<340, 2823, 6692, 0938>>, <<4634, 6337, 4607, 4317, 6821, 1456>>), typ |-> "fix192"],
    [value |-> N(<<1>>, <<5000>>), typ |-> "fix192"],
    [value |-> D(<<1>>, <<>>), typ |-> "Fix32"]
>>
NumGoConstProbes == 34
GoConstValues == FirstOf(GoConstProbes, NumGoConstProbes)
Roundings == {"ROUND_HALF_UP", "ROUND_DOWN"}

\* go_const(name, value, typ, rounding) called: the words of the constant
\* it returns, or the exception it raises
CallGoConst ==
    /\ pc = "idle"
    /\ \E i \in 1..Len(GoConstValues), rounding \in Roundings :
          /\ values' = << GoConstValues[i].value >>
          /\ outputType' = GoConstValues[i].typ
          /\ operation' = rounding
          /\ printed' = IF go_const(GoConstValues[i].value, GoConstValues[i].typ, rounding).exc = "None"
                        THEN go_const(GoConstValues[i].value, GoConstValues[i].typ, rounding).val.words
                        ELSE <<>>
          /\ err' = go_const(GoConstValues[i].value, GoConstValues[i].typ, rounding).exc
    /\ pc' = "go_const"
    /\ UNCHANGED <<func, result, k>>

\* the call has returned or raised
GoConstReturn ==
    /\ pc = "go_const"
    /\ pc' = "idle"
    /\ values' = <<>> /\ outputType' = "" /\ operation' = "" /\ printed' = <<>> /\ err' = "None"
    /\ UNCHANGED <<func, result, k>>

\* chebyFitWithOverflowCheck(func, bounds, degree) called with one of the
\* polynomials: the coefficients it returns, or the exception it raises
CallChebyFit ==
    /\ pc = "idle"
    /\ \E i \in 1..Len(ChebyFuncs) :
          /\ values' = ChebyFuncs[i].bounds
          /\ printed' = chebyFitWithOverflowCheck(ChebyFuncs[i].func, ChebyFuncs[i].bounds, ChebyFuncs[i].degree).val
          /\ err' = chebyFitWithOverflowCheck(ChebyFuncs[i].func, ChebyFuncs[i].bounds, ChebyFuncs[i].degree).exc
    /\ pc' = "chebyFit"
    /\ UNCHANGED <<func, outputType, operation, result, k>>

\* the call has returned or raised
ChebyFitReturn ==
    /\ pc = "chebyFit"
    /\ pc' = "idle"
    /\ values' = <<>> /\ printed' = <<>> /\ err' = "None"
    /\ UNCHANGED <<func, outputType, operation, result, k>>

(* python genConstants.py: result holds bestFactor (0 for None) and      *)
(* bestError, k is the variable of the running loop, printed the         *)
(* constants go_const has written, values the rows of expIntPowers.      *)

\* the script up to the search loop
StartGenConstants ==
    /\ pc = "idle"
    /\ pc' = "twoPiSearch"
    /\ k' = minFactor
    /\ result' = [bestFactor |-> 0, bestError |-> D(<<1>>, <<>>)]
    /\ UNCHANGED <<func, outputType, operation, values, err, printed>>

\* one pass of the loop, err being twoPi - estTwoPi
SearchPass(e) ==
    IF DecLT(e, Zero)
    THEN /\ err' = "ValueError" /\ pc' = "exit"
         /\ UNCHANGED <<result, k>>
    ELSE /\ result' = IF DecLT(e, result.bestError) THEN [bestFactor |-> k, bestError |-> e] ELSE result
         /\ k' = k + 1
         /\ UNCHANGED <<err, pc>>

SearchStep ==
    /\ pc = "twoPiSearch"
    /\ k <= maxFactor
    /\ SearchPass(twoPiErr(k))
    /\ UNCHANGED <<func, outputType, operation, values, printed>>

\* the loop is over: twoPiFactor, twoPiMultiple and the sanity check
SearchDone ==
    /\ pc = "twoPiSearch"
    /\ k > maxFactor
    /\ IF DecEQ(correctQuotient, magicQuotient(twoPiMultiple(result.bestFactor), result.bestFactor))
       THEN pc' = "chebyFits" /\ err' = err
       ELSE pc' = "exit" /\ err' = "ValueError"
    /\ UNCHANGED <<func, outputType, operation, values, result, printed, k>>

\* the fits of sin, exp and ln: what mp.chebyfit returns decides whether
\* one of the calls of chebyFitWithOverflowCheck raises
ChebyFits ==
    /\ pc = "chebyFits"
    /\ \E raised \in BOOLEAN :
          /\ pc' = IF raised THEN "exit" ELSE "printConstants"
          /\ err' = IF raised THEN "ValueError" ELSE err
    /\ k' = 0
    /\ UNCHANGED <<func, outputType, operation, values, result, printed>>

\* the calls of go_const in main, in the order of the lines they print
MainConstants(bestFactor) == <<
    [name |-> "UFix128Zero", value |-> Zero, typ |-> "UFix128", rounding |-> "ROUND_HALF_UP"],
    [name |-> "Fix128Zero", value |-> Zero, typ |-> "Fix128", rounding |-> "ROUND_HALF_UP"],
    [name |-> "UFix128One", value |-> D(<<1>>, <<>>), typ |-> "UFix128", rounding |-> "ROUND_HALF_UP"],
    [name |-> "Fix128One", value |-> D(<<1>>, <<>>), typ |-> "Fix128", rounding |-> "ROUND_HALF_UP"],
    [name |-> "UFix128Max", value |-> UFix128Max, typ |-> "UFix128", rounding |-> "ROUND_HALF_UP"],
    [name |-> "Fix128Max", value |-> Fix128Max, typ |-> "Fix128", rounding |-> "ROUND_HALF_UP"],
    [name |-> "Fix128Min", value |-> Fix128Min, typ |-> "Fix128", rounding |-> "ROUND_HALF_UP"],
    [name |-> "Fix64Pi", value |-> pi, typ |-> "Fix64", rounding |-> "ROUND_HALF_UP"],
    [name |-> "Fix64TwoPi", value |-> RoundPrec(DecMul(pi, Two), Prec), typ |-> "Fix64", rounding |-> "ROUND_HALF_UP"],
    [name |-> "Fix64HalfPi", value |-> DivPrec(pi, Two, Prec), typ |-> "Fix64", rounding |-> "ROUND_HALF_UP"],
    [name |-> "Fix128Pi", value |-> pi, typ |-> "Fix128", rounding |-> "ROUND_HALF_UP"],
    [name |-> "Fix128TwoPi", value |-> RoundPrec(DecMul(pi, Two), Prec), typ |-> "Fix128", rounding |-> "ROUND_HALF_UP"],
    [name |-> "Fix128HalfPi", value |-> DivPrec(pi, Two, Prec), typ |-> "Fix128", rounding |-> "ROUND_HALF_UP"],
    [name |-> "maxLn64", value |-> maxLn64, typ |-> "Fix64", rounding |-> "ROUND_HALF_UP"],
    [name |-> "minLn64", value |-> minLn64, typ |-> "Fix64", rounding |-> "ROUND_HALF_UP"],
    [name |-> "maxLn128", value |-> maxLn128, typ |-> "Fix128", rounding |-> "ROUND_HALF_UP"],
    [name |-> "minLn128", value |-> minLn128, typ |-> "Fix128", rounding |-> "ROUND_HALF_UP"],
    [name |-> "fix192Zero", value |-> Zero, typ |-> "fix192", rounding |-> "ROUND_HALF_UP"],
    [name |-> "fix192One", value |-> D(<<1>>, <<>>), typ |-> "fix192", rounding |-> "ROUND_HALF_UP"],
    [name |-> "fix192Pi", value |-> pi, typ |-> "fix192", rounding |-> "ROUND_HALF_UP"],
    [name |-> "fix192TwoPi", value |-> RoundPrec(DecMul(pi, Two), Prec), typ |-> "fix192", rounding |-> "ROUND_HALF_UP"],
    [name |-> "fix192HalfPi", value |-> DivPrec(pi, Two, Prec), typ |-> "fix192", rounding |-> "ROUND_HALF_UP"],
    [name |-> "fix192Ln2", value |-> ln2, typ |-> "fix192", rounding |-> "ROUND_HALF_UP"],
    [name |-> "fiveToThe24", value |-> FiveTo24, typ |-> "raw64", rounding |-> "ROUND_HALF_UP"],
    [name |-> "clampAngleTwoPi", value |-> twoPi, typ |-> "fix192", rounding |-> "ROUND_DOWN"],
    [name |-> "clampAngleTwoPiMultiple", value |-> twoPiMultiple(bestFactor), typ |-> "raw64", rounding |-> "ROUND_HALF_UP"],
    [name |-> "clampAngleTwoPiFactor", value |-> D(<<bestFactor>>, <<>>), typ |-> "raw64", rounding |-> "ROUND_HALF_UP"],
    [name |-> "clampAngleTwoPiResidual", value |-> twoPiResidual, typ |-> "raw64", rounding |-> "ROUND_HALF_UP"]
>>

\* print(go_const(...)): the line joins what go_const returned to the name
PrintConst(name, line) ==
    IF line.exc # "None"
    THEN /\ err' = line.exc /\ pc' = "exit"
         /\ UNCHANGED <<printed, k>>
    ELSE /\ printed' = Append(printed, [name |-> name, decl |-> line.val.decl,
                                        typ |-> line.val.typ, words |-> line.val.words])
         /\ k' = k + 1
         /\ UNCHANGED <<err, pc>>
PrintGoConst(c) == PrintConst(c.name, go_const(c.value, c.typ, c.rounding))

\* main, one constant at a time
MainConstant ==
    /\ pc = "printConstants"
    /\ k < Len(MainConstants(result.bestFactor))
    /\ PrintGoConst(MainConstants(result.bestFactor)[k + 1])
    /\ UNCHANGED <<func, outputType, operation, values, result>>

\* print("var expIntPowers = []fix192{") and the start of the loop
StartExpIntPowers ==
    /\ pc = "printConstants"
    /\ k = Len(MainConstants(result.bestFactor))
    /\ pc' = "expIntPowers"
    /\ k' = smallestExpIntPower
    /\ UNCHANGED <<func, outputType, operation, values, result, err, printed>>

\* one row of the table, for intPower = k
ExpIntPowersRow ==
    /\ pc = "expIntPowers"
    /\ k <= lastExpIntPower
    /\ values' = Append(values, [intPower |-> k, words |-> hexString192(expIntValue(k))])
    /\ k' = k + 1
    /\ UNCHANGED <<pc, func, outputType, operation, result, err, printed>>

\* the table is closed and smallestExpIntPower printed; the lines that
\* follow print the coefficients the fits returned
ExpIntPowersEnd ==
    /\ pc = "expIntPowers"
    /\ k > lastExpIntPower
    /\ pc' = "exit"
    /\ k' = smallestExpIntPower
    /\ UNCHANGED <<func, outputType, operation, values, result, err, printed>>

\* the script has ended, by the end of main or by an exception
GenConstantsExit ==
    /\ pc = "exit"
    /\ pc' = "idle"
    /\ values' = <<>> /\ result' = Unbound /\ err' = "None" /\ printed' = <<>>
    /\ k' = 0
    /\ UNCHANGED <<func, outputType, operation>>

Next ==
    \/ StartGenTestData
    \/ GenTestDataRow
    \/ GenTestDataExit
    \/ CallGenerate
    \/ GenerateRow
    \/ GenerateReturn
    \/ GenerateRaise
    \/ CallEncoders
    \/ EncodersReturn
    \/ CallDecClamp
    \/ DecClampReturn
    \/ CallGenerateFix128Values
    \/ GenerateFix128ValuesReturn
    \/ CallGoConst
    \/ GoConstReturn
    \/ CallChebyFit
    \/ ChebyFitReturn
    \/ StartGenConstants
    \/ SearchStep
    \/ SearchDone
    \/ ChebyFits
    \/ MainConstant
    \/ StartExpIntPowers
    \/ ExpIntPowersRow
    \/ ExpIntPowersEnd
    \/ GenConstantsExit

Spec == Init /\ [][Next]_vars


(* ------------------------------------------------------------------ *)
(* Properties                                                          *)
(* ------------------------------------------------------------------ *)

UnsignedTypes == {"UFix64", "UFix128"}
SignedTypes   == {"Fix64", "Fix128"}

\* genTestData has printed a row of operation op
GtdRow(op) == pc = "genTestData" /\ k > 0 /\ operation = op

\* a generate_* function of operation op has appended a line
TabRow(op) == func # 0 /\ k > 0 /\ err = "None" /\ GenerateFunctions[func].op = op

\* the outcome the running function's table expects, and the table's type
Expect    == GenerateFunctions[func].expect
TableType == GenerateFunctions[func].type

\* the exact result of op on the operands of the row made last
Exact(op) ==
    CASE op = "Add" -> DecAdd(values[1], values[2])
      [] op = "Sub" -> DecSub(values[1], values[2])
      [] op = "Mul" -> DecMul(values[1], values[2])
      [] op = "Div" -> DecDiv(values[1], values[2])

\* op is defined on the operands of the row made last
Defined(op) == op = "Div" => ~is_zero(values[2])

ZeroOperand == is_zero(values[1]) \/ is_zero(values[2])

\* the loop body's outcome s is the outcome of the row made last
SameOutcome(s) == s.err = err /\ DecEQ(s.result, result)

\* C1: in genTestData Add(a, b) and Add(b, a) have the same outcome, and the
\* outcome is Overflow if and only if the exact sum a + b is above the
\* type's maximum; every pair of an Add overflow table has an exact sum
\* above the maximum and no pair of an Add success table has.
C1_AddCommutesAndOverflows ==
    /\ GtdRow("Add") =>
          /\ (err = "Overflow") <=> DecGT(Exact("Add"), maxVal(outputType))
          /\ SameOutcome(LoopBody(outputType, "Add", <<values[2], values[1]>>, result))
    /\ (TabRow("Add") /\ Expect = "Overflow") => DecGT(Exact("Add"), maxVal(TableType))
    /\ (TabRow("Add") /\ Expect = "None") => ~DecGT(Exact("Add"), maxVal(TableType))

\* an Add row of genTestData that overflows, its operands different
C1_Witness ==
    /\ GtdRow("Add") /\ err = "Overflow"
    /\ ~DecEQ(values[1], values[2])
    /\ DecGT(Exact("Add"), maxVal(outputType))

\* e is NegOverflow exactly when x is below the minimum of type and
\* Overflow exactly when x is above its maximum
Classified(e, x, type) ==
    /\ (e = "NegOverflow") <=> DecLT(x, minVal(type))
    /\ (e = "Overflow") <=> DecGT(x, maxVal(type))

\* C2: for Fix64 and Fix128, Add and Sub report NegOverflow exactly when the
\* exact result is below the minimum and Overflow exactly when it is above
\* the maximum, in genTestData and in the tables: the pairs of a
\* NegOverflow table have an exact result < min, those of an Overflow
\* table one > max, those of a success table one within [min, max].
C2_SignedAddSubBounds ==
    \A op \in {"Add", "Sub"} :
        /\ (GtdRow(op) /\ outputType \in SignedTypes) =>
              Classified(err, Exact(op), outputType)
        /\ (TabRow(op) /\ TableType \in SignedTypes) =>
              Classified(Expect, Exact(op), TableType)

\* Fix64 Add(MinFix64, -1) is a NegOverflow
C2_Witness ==
    /\ GtdRow("Add") /\ outputType = "Fix64"
    /\ DecEQ(values[1], minVal("Fix64")) /\ DecEQ(values[2], N(<<1>>, <<>>))
    /\ err = "NegOverflow"

\* C3: for UFix64 and UFix128, genTestData reports Sub(a, b) as NegOverflow
\* exactly when a < b; the pairs of a SubUFix* NegOverflow table have
\* a < b and those of a SubUFix* success table a >= b, and the word written
\* for c, with or without max(c, 0), is the encoding of c.
C3_UnsignedSubBelowZero ==
    /\ (GtdRow("Sub") /\ outputType \in UnsignedTypes) =>
          ((err = "NegOverflow") <=> DecLT(values[1], values[2]))
    /\ (TabRow("Sub") /\ TableType \in UnsignedTypes) =>
          /\ (Expect = "NegOverflow") <=> DecLT(values[1], values[2])
          /\ (Expect = "None") <=> DecGE(values[1], values[2])
          /\ Expect = "None" =>
                printed[3] = encode(GenerateFunctions[func].utils, TableType, result).val

\* an unsigned Sub row of genTestData with a < b
C3_Witness ==
    /\ GtdRow("Sub") /\ outputType = "UFix128"
    /\ DecLT(values[1], values[2])
    /\ err = "NegOverflow" /\ is_zero(printed[3])

\* C4: Div(a, 0) is DivByZero for every dividend a, 0 included: genTestData
\* reports no other outcome for it, and a Div table has a pair with
\* divisor 0 exactly when it is a DivByZero table.
C4_DivByZero ==
    /\ (GtdRow("Div") /\ is_zero(values[2])) => err = "DivByZero"
    /\ (GtdRow("Div") /\ err = "DivByZero") => is_zero(values[2])
    /\ TabRow("Div") => ((Expect = "DivByZero") <=> is_zero(values[2]))

\* the row 0 / 0 of genTestData
C4_Witness ==
    /\ GtdRow("Div") /\ is_zero(values[1]) /\ is_zero(values[2])
    /\ err = "DivByZero"

\* C5: for Mul and Div genTestData reports Overflow whenever the exact
\* result is above the type's maximum and NegOverflow whenever it is below
\* the type's minimum, however small the excess.
C5_MulDivBoundsExact ==
    \A op \in {"Mul", "Div"} :
        (GtdRow(op) /\ Defined(op)) =>
            /\ DecGT(Exact(op), maxVal(outputType)) => err = "Overflow"
            /\ DecLT(Exact(op), minVal(outputType)) => err = "NegOverflow"

\* x is not zero and smaller in magnitude than half a quantum of type
Tiny(x, type) == ~is_zero(x) /\ DecLT(copy_sign_1(x), DecDiv(quanta(type), Two))

\* C6: for Mul and Div, an exact result that is not zero but smaller in
\* magnitude than half the smallest unit of the type is an Underflow in
\* genTestData, whatever its sign, and the tables list such a pair
\* only in an Underflow table.
C6_HalfQuantumUnderflow ==
    \A op \in {"Mul", "Div"} :
        /\ (GtdRow(op) /\ Defined(op) /\ Tiny(Exact(op), outputType)) =>
              err = "Underflow"
        /\ (TabRow(op) /\ Defined(op) /\ Tiny(Exact(op), TableType)) =>
              Expect = "Underflow"

\* UFix128 Mul(1e-24, 1e-1) is an Underflow
C6_Witness ==
    /\ GtdRow("Mul") /\ outputType = "UFix128"
    /\ DecEQ(values[1], D(<<0>>, <<0000, 0000, 0000, 0000, 0000, 0001>>))
    /\ DecEQ(values[2], D(<<0>>, <<1000>>))
    /\ err = "Underflow"

\* C7: every pair of a Mul underflow table has an exact product that is
\* not zero and becomes zero at the granularity of the type, and no pair
\* of a Mul success table has a nonzero exact product whose encoded value
\* is zero.
C7_MulTablesUnderflow ==
    TabRow("Mul") =>
        /\ Expect = "Underflow" =>
              /\ ~is_zero(Exact("Mul"))
              /\ is_zero(quantize(Exact("Mul"), quanta(TableType).fl, "ROUND_DOWN"))
        /\ (Expect = "None" /\ ~is_zero(Exact("Mul"))) => ~is_zero(printed[3])

\* the integer a raw word w of a signed encoder stands for
Signed(w, mask, maxInt) == IF DecGT(w, maxInt) THEN DecSub(DecSub(w, mask), D(<<1>>, <<>>)) ELSE w

\* the integers the encoders that returned have made of the same number
\* of quanta
Integers8 ==
    {printed[e].val : e \in {e \in {"to_ufix64", "to_ufix128", "testgen_to_ufix64", "testgen_to_ufix128"} :
                                 printed[e].exc = "None"}}
    \cup {Signed(printed[e].val, MASK64, MaxInt64) :
              e \in {e \in {"to_fix64", "testgen_to_fix64"} : printed[e].exc = "None"}}
    \cup {Signed(printed[e].val, MASK128, MaxInt128) :
              e \in {e \in {"to_fix128", "testgen_to_fix128"} : printed[e].exc = "None"}}

\* C8: one rounding rule turns a scaled value into a raw integer: for the
\* same number of quanta, to_ufix64 / to_fix64 on v * 10^8, to_ufix128 /
\* to_fix128 on v * 10^24 and the encoders of testgen/utils.py all make
\* the same integer.
C8_OneRoundingRule ==
    pc = "utils" => \A m, n \in Integers8 : DecEQ(m, n)

\* C9: Mul with a zero operand is exactly zero without error, whatever the
\* other operand: in genTestData, and in the Mul tables, where such a pair
\* is listed in a success table only, with the word 0 for the product.
C9_MulByZero ==
    /\ (GtdRow("Mul") /\ ZeroOperand) =>
          err = "None" /\ is_zero(result) /\ is_zero(printed[3])
    /\ (TabRow("Mul") /\ ZeroOperand) =>
          Expect = "None" /\ is_zero(result) /\ is_zero(printed[3])

\* Fix128 Mul(0, MinFix128)
C9_Witness ==
    /\ GtdRow("Mul") /\ outputType = "Fix128"
    /\ is_zero(values[1]) /\ DecEQ(values[2], minVal("Fix128"))
    /\ err = "None" /\ is_zero(result)

\* C10: Sub(a, a) is exactly 0 without error for every a of a type: in
\* genTestData, and in the Sub tables, where a pair of equal operands is
\* listed in a success table only, with the word 0 for the difference.
C10_SubSelf ==
    /\ (GtdRow("Sub") /\ DecEQ(values[1], values[2])) =>
          err = "None" /\ is_zero(result) /\ is_zero(printed[3])
    /\ (TabRow("Sub") /\ DecEQ(values[1], values[2])) =>
          Expect = "None" /\ is_zero(result) /\ is_zero(printed[3])

\* UFix64 Sub(MaxUFix64, MaxUFix64)
C10_Witness ==
    /\ GtdRow("Sub") /\ outputType = "UFix64"
    /\ DecEQ(values[1], maxVal("UFix64")) /\ DecEQ(values[2], maxVal("UFix64"))
    /\ err = "None" /\ is_zero(result)


\* a generate_* function of operation op has made a pass of its loop,
\* whether the pass appended a line or raised
TabPass(op) == func # 0 /\ k > 0 /\ GenerateFunctions[func].op = op

\* x lies within [min, max] of type
InRange(x, type) == DecGE(x, minVal(type)) /\ DecLE(x, maxVal(type))

\* C19: the Mul tables of both widths agree with exact arithmetic: every
\* pair of a Mul Overflow table has an exact product above the type's
\* maximum, every pair of a Mul NegOverflow table one below the type's
\* minimum, every pair of a Mul success table one within [min, max], and
\* no pass over a Mul success table raises ValueError.
C19_MulTablesConsistent ==
    /\ TabRow("Mul") =>
          /\ Expect = "Overflow" => DecGT(Exact("Mul"), maxVal(TableType))
          /\ Expect = "NegOverflow" => DecLT(Exact("Mul"), minVal(TableType))
          /\ Expect = "None" => InRange(Exact("Mul"), TableType)
    /\ (TabPass("Mul") /\ Expect = "None") => err = "None"

\* the error kinds a row of genTestData can carry
ErrorKinds == {"Overflow", "NegOverflow", "Underflow", "DivByZero", "DomainError"}

\* a row of genTestData has been printed
RowPrinted == pc = "genTestData" /\ k > 0

\* the operation of the row printed last returned (it raised no exception)
Returned == operationFunc(operation, values).exc = "None"

\* C11: every row of genTestData carries one outcome, a value without
\* error or one error kind of Overflow, NegOverflow, Underflow, DivByZero,
\* DomainError; with an error kind the value of the row is exactly zero;
\* a value without error is the result of this row's operation (which
\* returned, or was replaced by the rule for Pow with base 0), never the
\* result another row or an interrupted evaluation left behind
C11_OneOutcomePerRow ==
    RowPrinted =>
        /\ err \in ErrorKinds \cup {"None"}
        /\ Len(printed) = Len(values) + 2
        /\ printed[Len(values) + 2] = err
        /\ printed[Len(values) + 1] = formatFunc(outputType, result)
        /\ err # "None" => is_zero(result) /\ is_zero(printed[Len(values) + 1])
        /\ err = "None" =>
              /\ result # Unbound /\ ~is_infinite(result)
              /\ Returned \/ (operation = "Pow" /\ DecEQ(values[1], Zero))

\* an operation raised while the row before had left a value behind, and
\* the row carries DivByZero with the value zero
C11_Witness ==
    /\ RowPrinted /\ k > 1
    /\ ~Returned
    /\ err = "DivByZero" /\ is_zero(result)

\* the divisor of the row printed last is exactly zero: Div or Mod by 0,
\* FMD with c = 0, or Pow with base 0 and a negative exponent
ZeroDivisor ==
    \/ operation \in {"Div", "Mod"} /\ DecEQ(values[2], Zero)
    \/ operation = "FMD" /\ DecEQ(values[3], Zero)
    \/ operation = "Pow" /\ DecEQ(values[1], Zero) /\ DecLT(values[2], Zero)

\* C12: a row of genTestData is labelled DivByZero only when the divisor
\* of its operation is exactly zero (Div, Mod or FMD with a zero divisor,
\* Pow with base 0 and a negative exponent); no other failing input, such
\* as a negative operand of Sqrt for a signed type, is labelled DivByZero
C12_DivByZeroOnlyZeroDivisor ==
    (RowPrinted /\ err = "DivByZero") => ZeroDivisor

\* a loop of trans64.py has passed over a row of the function for op
TransPass(op) ==
    pc = "generators/trans64.py" /\ k > 0 /\ GenerateFunctions[func].op = op

\* the outcome the loop of that row writes for it ("None": a value)
TransExpect == GenerateFunctions[func].table[k][1]

\* C13: Ln of an unsigned input equal to 0 is finally DomainError, whatever
\* the try block made of ln(0) (its quantize raises, which alone would be
\* DivByZero), and Ln of a positive input is never DomainError; the ln
\* table of trans64.py lists positive inputs only, each written with a value
C13_LnDomainError ==
    /\ (RowPrinted /\ operation = "Ln") =>
          /\ DecGE(values[1], Zero)
          /\ DecEQ(values[1], Zero) => err = "DomainError" /\ is_zero(result)
          /\ DecGT(values[1], Zero) => err # "DomainError"
    /\ TransPass("Ln") =>
          DecGT(values[1], Zero) /\ err = "None" /\ Len(printed) = 2

\* ln(0) has been evaluated: the try block ends in DivByZero and the row
\* is DomainError
C13_Witness ==
    /\ RowPrinted /\ operation = "Ln" /\ DecEQ(values[1], Zero)
    /\ TryBlock(outputType, operation, values, Unbound).err = "DivByZero"
    /\ err = "DomainError"

\* what the operation of the row printed last returned or raised
Outcome == operationFunc(operation, values)

\* the returned value is zero once truncated to the granularity of the type
QuantizesToZero(v) == is_zero(quantize(v, quanta(outputType).fl, "ROUND_DOWN"))

\* C14: Exp never yields the value zero without an error: when the
\* result is zero as computed (the decimal engine returns zero for very
\* negative inputs) or after quantizing, the row is Underflow; when the
\* decimal engine raises Overflow the row is Overflow
C14_ExpNeverZero ==
    (RowPrinted /\ operation = "Exp") =>
        /\ err = "None" => DecGT(result, Zero)
        /\ Outcome.exc = "Overflow" => err = "Overflow"
        /\ (Outcome.exc = "None" /\ QuantizesToZero(Outcome.val)) => err = "Underflow"

\* exp of an input so negative that the engine returns zero: Underflow
C14_Witness ==
    /\ RowPrinted /\ operation = "Exp"
    /\ Outcome.exc = "None" /\ is_zero(Outcome.val)
    /\ err = "Underflow"

\* the operation of the row printed last returned a finite value that is
\* not zero and smaller in magnitude than one quantum of the type
BelowQuantum ==
    /\ Outcome.exc = "None" /\ ~is_infinite(Outcome.val) /\ ~is_zero(Outcome.val)
    /\ DecLT(copy_sign_1(Outcome.val), quanta(outputType))

\* C15: the clamp of an underflow to zero is for Sin and Cos only: their
\* nonzero results below the granularity of the type are printed as the
\* value 0 without error; a result of that magnitude of any other
\* operation (Tan, Mul, Div, Exp, ...) is printed as Underflow
C15_ClampSinCosOnly ==
    (RowPrinted /\ BelowQuantum) =>
        IF operation \in {"Sin", "Cos"}
        THEN err = "None" /\ is_zero(result)
        ELSE err = "Underflow"

\* Sin or Cos of an angle next to one of its zeros: a result below the
\* quantum, printed as the value 0
C15_Witness ==
    /\ RowPrinted /\ operation \in {"Sin", "Cos"} /\ BelowQuantum
    /\ err = "None" /\ is_zero(result)

\* the input a of the row made last is an entry of the table
Listed(table) ==
    \E i \in 1..Len(table) : DecEQ(parseInput64(table[i]).val, values[1])

\* C16: each Tan input has one expected outcome: no input of TanFix64Tests
\* (written with an expected value) is an input of TanFix64OverflowTests
\* (written as an overflow), and none of the latter is one of the former
C16_TanOneOutcome ==
    TransPass("Tan") =>
        IF TransExpect = "None" THEN ~Listed(TanFix64OverflowTests)
        ELSE ~Listed(TanFix64Tests)

\* |a| <= 1 for the input a of the row made last
InUnitRange == DecLE(copy_sign_1(values[1]), D(<<1>>, <<>>))

\* C17: Asin and Acos have a RangeError exactly for |x| > 1: every input
\* of AsinAcosFix64RangeTests (MaxFix64 and MinFix64 among them) has
\* |x| > 1 and is written as a range error, every input of
\* AsinAcosFix64Tests has |x| <= 1 (1 and -1 included) and is written
\* with its value: the test `abs(a) > 1` skips none of them
C17_AsinAcosRange ==
    \A op \in {"Asin", "Acos"} :
        TransPass(op) =>
            /\ err = "None"
            /\ IF TransExpect = "None"
               THEN InUnitRange /\ Len(printed) = 2
               ELSE ~InUnitRange /\ Len(printed) = 1

\* the boundary 1 (or -1) has been written with its value
C17_Witness ==
    /\ TransPass("Asin") /\ TransExpect = "None"
    /\ DecEQ(copy_sign_1(values[1]), D(<<1>>, <<>>))
    /\ Len(printed) = 2

\* decClamp(x) has returned for the angle x = values[1]
Clamped == pc = "decClamp"

\* pi at the output scale of decClamp, in the precision of the context
ScaledPi == RoundPrec(DecMul(decPi, ClampScale), Prec)

\* x - a is a whole number of turns of 2 * decPi (exact arithmetic)
WholeTurns(x, a) ==
    DecEQ(DecMul(int(DecDiv(DecSub(x, a), ClampTwoPi)), ClampTwoPi), DecSub(x, a))

\* a is in (-pi, pi], differs from x by a whole number of turns, and is
\* +pi when x is congruent to pi
Reduced(x, a) ==
    /\ DecGT(a, DecNeg(decPi)) /\ DecLE(a, decPi)
    /\ WholeTurns(x, a)
    /\ WholeTurns(x, decPi) => DecEQ(a, decPi)

TruncatedOps == {"Add", "Sub", "Mul", "Div", "FMD", "Mod", "Sqrt", "Tan"}

\* the returned value is at least half a quantum in magnitude
HalfQuantumOrMore ==
    DecGE(copy_sign_1(Outcome.val), DecDiv(quanta(outputType), Two))

\* the try block comes to the call of quantize
Quantized ==
    /\ Outcome.exc = "None" /\ ~is_infinite(Outcome.val)
    /\ ~DecGT(Outcome.val, TwoPow128)

\* C20: for Add, Sub, Mul, Div, FMD, Mod, Sqrt and Tan a row of genTestData
\* is Underflow if and only if its result r has 0 < |r| < one quantum of
\* the type (results are truncated toward zero), results with
\* quantum/2 <= |r| < quantum included, as in the Div underflow tables;
\* the test |r| < quantum/2 changes nothing: quantize alone gives the same err
C20_UnderflowBelowQuantum ==
    /\ (RowPrinted /\ operation \in TruncatedOps) =>
          /\ (err = "Underflow") <=> BelowQuantum
          /\ Quantized =>
                QuantizeDown(Outcome.val, quantize(Outcome.val, quanta(outputType).fl, "ROUND_DOWN")).err
                    = TryBlock(outputType, operation, values, Unbound).err
    /\ (TabRow("Div") /\ Expect = "Underflow") =>
          /\ ~is_zero(values[1]) /\ ~is_zero(values[2])
          /\ DecLT(copy_sign_1(DecDiv(values[1], values[2])), quanta(TableType))

\* a result between half a quantum and one quantum: Underflow
C20_Witness ==
    /\ RowPrinted /\ operation \in TruncatedOps
    /\ BelowQuantum /\ HalfQuantumOrMore
    /\ err = "Underflow"

(* ------------------------------------------------------------------ *)
(* Exp and Pow against the generated constants                         *)
(* ------------------------------------------------------------------ *)

\* minLn and maxLn of the width of the output type
minLn(type) == IF type \in {"UFix64", "Fix64"} THEN minLn64 ELSE minLn128
maxLn(type) == IF type \in {"UFix64", "Fix64"} THEN maxLn64 ELSE maxLn128

\* C21: the classification of Exp rows by genTestData agrees with the
\* constants genConstants generates for the same width: a row is
\* Underflow exactly when its input is below minLn, Overflow exactly
\* when its input is above maxLn, and carries a nonzero value without
\* error for every input from minLn to maxLn
C21_ExpAgreesWithLnBounds ==
    (RowPrinted /\ operation = "Exp") =>
        /\ err = "Underflow" <=> DecLT(values[1], minLn(outputType))
        /\ err = "Overflow" <=> DecGT(values[1], maxLn(outputType))
        /\ (DecGE(values[1], minLn(outputType)) /\ DecLE(values[1], maxLn(outputType)))
              => (err = "None" /\ ~is_zero(result))

\* the row printed last is a Pow row whose base is exactly 0
PowOfZero == RowPrinted /\ operation = "Pow" /\ DecEQ(values[1], Zero)

\* C22: Pow with base exactly 0 follows fixed rules that override what
\* the row was classified as before (the Underflow of a zero result of
\* Exp/Pow, the DivByZero of an exception of the decimal engine): a
\* negative exponent gives DivByZero with the value 0, the exponent 0
\* the value 1 without error, a positive exponent the value 0 without
\* error
C22_PowZeroBaseRules ==
    PowOfZero =>
        /\ DecLT(values[2], Zero) =>
              (err = "DivByZero" /\ is_zero(result) /\ is_zero(printed[3]))
        /\ DecEQ(values[2], Zero) =>
              (err = "None" /\ DecEQ(result, D(<<1>>, <<>>))
                 /\ printed[3] = formatFunc(outputType, D(<<1>>, <<>>)))
        /\ DecGT(values[2], Zero) =>
              (err = "None" /\ is_zero(result) /\ is_zero(printed[3]))

\* 0 ** b for a positive b: the engine returns zero, which the rule for
\* zero results of Exp/Pow had made an Underflow; the row carries the
\* value 0 without error
C22_Witness ==
    /\ PowOfZero /\ DecGT(values[2], Zero)
    /\ Outcome.exc = "None" /\ is_zero(Outcome.val)
    /\ err = "None" /\ is_zero(result)

(* ------------------------------------------------------------------ *)
(* The encoders of utils.py                                            *)
(* ------------------------------------------------------------------ *)

\* 2^64 and 2^128
TwoPow64Int  == DecAdd(MASK64, D(<<1>>, <<>>))
TwoPow128Int == DecAdd(MASK128, D(<<1>>, <<>>))

\* the scaled integer n an encoder makes of values[1] quanta: rounded
\* half-up by to_ufix64 and to_fix64 of generators/utils.py, truncated by
\* the others
ScaledInt(e) ==
    IF e \in {"to_ufix64", "to_fix64"}
    THEN NoNegZero(quantize(values[1], 0, "ROUND_HALF_UP"))
    ELSE int(values[1])

\* the raw range of the type of encoder e, and 2^w for its width w
RawMin(e) ==
    CASE e \in {"to_fix64", "testgen_to_fix64"}   -> MinInt64
      [] e \in {"to_fix128", "testgen_to_fix128"} -> MinInt128
      [] OTHER -> Zero
RawMax(e) ==
    CASE e \in {"to_fix64", "testgen_to_fix64"}     -> MaxInt64
      [] e \in {"to_fix128", "testgen_to_fix128"}   -> MaxInt128
      [] e \in {"to_ufix64", "testgen_to_ufix64"}   -> MASK64
      [] OTHER -> MASK128
Modulus(e) ==
    IF e \in {"to_ufix64", "to_fix64", "testgen_to_ufix64", "testgen_to_fix64"}
    THEN TwoPow64Int ELSE TwoPow128Int

\* the integer the bit pattern w stands for in the type of encoder e
Decoded(e, w) ==
    IF RawMin(e) # Zero /\ DecGT(w, RawMax(e)) THEN DecSub(w, Modulus(e)) ELSE w

Encoders == {"to_ufix64", "to_fix64", "to_ufix128", "to_fix128",
             "testgen_to_ufix64", "testgen_to_fix64", "testgen_to_ufix128", "testgen_to_fix128"}

\* C30: the encoders of both utils.py never return a wrapped value: they
\* raise ValueError when the scaled integer n is outside the raw range of
\* the type, and otherwise return n for n >= 0 and n + 2^w for n < 0, a
\* bit pattern below 2^w that decodes to exactly n
C30_EncodersNeverWrap ==
    pc = "utils" =>
        \A e \in Encoders :
            IF DecLT(ScaledInt(e), RawMin(e)) \/ DecGT(ScaledInt(e), RawMax(e))
            THEN printed[e].exc = "ValueError"
            ELSE /\ printed[e].exc = "None"
                 /\ printed[e].val = (IF ScaledInt(e).neg
                                      THEN DecAdd(ScaledInt(e), Modulus(e)) ELSE ScaledInt(e))
                 /\ DecGE(printed[e].val, Zero) /\ DecLT(printed[e].val, Modulus(e))
                 /\ DecEQ(Decoded(e, printed[e].val), ScaledInt(e))

\* -(2^63) - 1 quanta: the 64-bit encoders raise, the signed 128-bit
\* encoders return its two's complement
C30_Witness ==
    /\ pc = "utils"
    /\ DecEQ(values[1], DecSub(MinInt64, D(<<1>>, <<>>)))
    /\ printed["to_fix64"].exc = "ValueError" /\ printed["testgen_to_fix64"].exc = "ValueError"
    /\ printed["to_fix128"].exc = "None"
    /\ DecEQ(printed["to_fix128"].val, DecAdd(values[1], TwoPow128Int))

(* ------------------------------------------------------------------ *)
(* generateFix128Values                                                *)
(* ------------------------------------------------------------------ *)

\* generateFix128Values has yielded the two values of a symbolic raw
\* value with a modifier
YieldedModified ==
    /\ pc = "data128" /\ err = "None"
    /\ "key" \in DOMAIN values[1] /\ values[1].op \in {"+", "-"}

\* what a description of the form "<special> <op> <mod>" denotes
Denotes(string) == parseInput128(string).val

\* C27: for "HalfMax + m" and "HalfMax - m" the first value yielded is
\* (2^126 - 1) / 10^24 + m, respectively - m: it has the base of the plain
\* "HalfMax" entry and is the value its description "HalfMaxFix128 +/- m"
\* denotes
C27_HalfMaxModifiedBase ==
    (YieldedModified /\ values[1].key = "HalfMax") =>
        /\ printed[1][1] = Described("HalfMaxFix128", values[1].op, values[1].mod)
        /\ DecEQ(printed[1][2], Modified(HalfMaxFix128Val, values[1].op, values[1].mod))
        /\ DecEQ(printed[1][2], Denotes(printed[1][1]))

\* the negative-side base of a key
MinBase(key) == IF key = "Max" THEN MinFix128Val ELSE HalfMinFix128Val

\* C28: for "Max +/- m" and "HalfMax +/- m" the second value yielded
\* mirrors the first on the negative side: it is described as
\* "MinFix128 -/+ m" ("HalfMinFix128 -/+ m"), its value is the negative
\* base with the modifier applied in the flipped direction (for
\* "Max - m": -2^127 / 10^24 + m), and it is never a positive number
C28_NegativeMirror ==
    YieldedModified =>
        /\ printed[2][1] = Described(MinKey(values[1].key) \o "Fix128",
                                     Flipped(values[1].op), values[1].mod)
        /\ DecEQ(printed[2][2],
                 Modified(MinBase(values[1].key), Flipped(values[1].op), values[1].mod))
        /\ DecLE(printed[2][2], Zero)

(* ------------------------------------------------------------------ *)
(* genConstants.py                                                     *)
(* ------------------------------------------------------------------ *)

\* main has printed its constants up to the one of the name
Emitted(name) == pc \in {"printConstants", "expIntPowers", "exit"} /\ \E i \in 1..Len(printed) : printed[i].name = name
EmittedWords(name) == printed[CHOOSE i \in 1..Len(printed) : printed[i].name = name].words

\* C24: the clampAngleTwoPiMultiple that main emits is the rounded-down
\* value of 2 pi * bestFactor * 5^24, the one the search loop evaluated
\* for the factor it chose; it does not exceed the exact product, so that
\* the 2 pi it stands for is an underestimate
C24_TwoPiMultipleRoundedDown ==
    Emitted("clampAngleTwoPiMultiple") =>
        /\ EmittedWords("clampAngleTwoPiMultiple") = << truncated2Pi(result.bestFactor) >>
        /\ DecLE(EmittedWords("clampAngleTwoPiMultiple")[1], DecMul(twoPi, currentMultiplier(result.bestFactor)))

\* the script has run to its end and emitted the multiple for the factor
\* the search chose among the factors from minFactor to maxFactor
C24_Witness ==
    /\ pc = "exit" /\ err = "None"
    /\ result.bestFactor \in minFactor..maxFactor
    /\ DecLT(result.bestError, D(<<1>>, <<>>))
    /\ Emitted("clampAngleTwoPiMultiple")
    /\ EmittedWords("clampAngleTwoPiFactor") = << D(<<result.bestFactor>>, <<>>) >>

\* floor(x)
Floor(x) == IF x.neg /\ ~DecEQ(x, int(x)) THEN SignedInt(int(x)) - 1 ELSE SignedInt(int(x))

\* inputs of Exp: the bounds of both widths and values between them
ExpInputs ==
    { minLn64, maxLn64, minLn128, maxLn128, Zero,
      N(<<0>>, <<5000>>), N(<<19>>, <<>>), N(<<19>>, <<1138>>), N(<<55>>, <<5000>>), N(<<55>>, <<>>),
      D(<<25>>, <<9407>>), D(<<33>>, <<>>), D(<<33>>, <<4607>>), D(<<1>>, <<>>), N(<<1>>, <<>>) }
ValidExpInput(type, x) == DecGE(x, minLn(type)) /\ DecLE(x, maxLn(type))

\* main has closed the table and printed smallestExpIntPower (kept in k)
TableWritten == pc = "exit" /\ err = "None"

\* C25: expIntPowers holds one entry for every integer from
\* floor(minLn128) to floor(maxLn128), in increasing order without gap
\* or duplicate, and for every valid input x of Exp, of either width,
\* the entry for floor(x) is the one at index floor(x) - smallestExpIntPower
C25_ExpIntPowersCoverDomain ==
    /\ pc = "expIntPowers" =>
          \A i \in 1..Len(values) : values[i].intPower = Floor(minLn128) + i - 1
    /\ TableWritten =>
          /\ Len(values) = Floor(maxLn128) - Floor(minLn128) + 1
          /\ \A i \in 1..Len(values) :
                /\ values[i].intPower = Floor(minLn128) + i - 1
                /\ values[i].words = hexString192(expIntValue(values[i].intPower))
          /\ \A type \in {"Fix64", "Fix128"}, x \in ExpInputs :
                ValidExpInput(type, x) =>
                    /\ Floor(x) - k + 1 \in 1..Len(values)
                    /\ values[Floor(x) - k + 1].intPower = Floor(x)

\* the table is written; the smallest valid input, negative and not an
\* integer, finds its entry first in the table
C25_Witness ==
    /\ TableWritten
    /\ ValidExpInput("Fix128", minLn128) /\ minLn128.neg /\ ~DecEQ(minLn128, int(minLn128))
    /\ values[Floor(minLn128) - k + 1].intPower = Floor(minLn128)
    /\ Floor(minLn128) - k + 1 = 1
    /\ Floor(maxLn128) - k + 1 = Len(values)

\* C26: every entry written to expIntPowers is below 2^191: the first
\* of its three words, decoded as the top word of a signed fix192, has
\* no sign bit
C26_EntriesBelowSignBit ==
    pc \in {"expIntPowers", "exit"} =>
        \A i \in 1..Len(values) : DecLT(values[i].words[1], TwoTo63)

\* the integer the words stand for, most significant word first
RECURSIVE WordsValue(_, _, _)
WordsValue(words, i, acc) ==
    IF i > Len(words) THEN acc
    ELSE WordsValue(words, i + 1, DecAdd(DecMul(acc, TwoTo64), words[i]))

\* the words decoded in the type: two's complement for the signed types
SignedGoTypes == {"int64", "Fix64", "Fix128", "fix192"}
TwoToBits(typ) == IF bitLength(typ) = 64 THEN TwoTo64 ELSE IF bitLength(typ) = 128 THEN TwoPow128 ELSE TwoTo192
DecodedAs(typ, n) ==
    IF typ \in SignedGoTypes /\ DecGE(DecAdd(n, n), TwoToBits(typ)) THEN DecSub(n, TwoToBits(typ)) ELSE n

\* C29: a constant go_const emits, decoded in the type it names, is the
\* value it was asked for (scaled and rounded); go_const raises
\* ValueError for every value the type cannot hold
C29_GoConstRepresentable ==
    (pc = "go_const" /\ err = "None") =>
        DecEQ(DecodedAs(outputType, WordsValue(printed, 1, Zero)),
              quantize(scaledValue(values[1], outputType), 0, operation))

\* the points at which the polynomial is evaluated between the bounds
NumSamples == 4
SamplePoint(minX, maxX, j) ==
    RatAdd(minX, DecDiv(DecMul(D(<<j>>, <<>>), RatSub(maxX, minX)), D(<<NumSamples>>, <<>>)))

\* the coefficient, the product and the sum of every pass of the Horner
\* evaluation at x are within the signed 192-bit range
RECURSIVE HornerInRange(_, _, _, _)
HornerPass(coeffs, x, i, prod) ==
    /\ ~OutOfRange(coeffs[i])
    /\ ~OutOfRange(prod)
    /\ ~OutOfRange(RatAdd(prod, coeffs[i]))
    /\ HornerInRange(coeffs, x, i + 1, RatAdd(prod, coeffs[i]))
HornerInRange(coeffs, x, i, acc) ==
    i > Len(coeffs) \/ HornerPass(coeffs, x, i, DecDiv(DecMul(acc, x), mulScale))

=============================================================================
